---------------------------- MODULE Spec2Model ----------------------------
(***************************************************************************)
(* A model of the concurrent piece-download engine of the BitTorrent       *)
(* client: main's connect loop (src/src/main.rs), the peer worker, the     *)
(* shared TorrentState and the per-piece PieceState                        *)
(* (src/src/download_worker.rs), the connection's choke flag and bitfield  *)
(* (src/src/connection.rs) and the piece and block partitioning            *)
(* (src/src/torrent.rs).                                                   *)
(*                                                                         *)
(* Every worker step is one action.  A step that takes a mutex is atomic   *)
(* from the lock to the unlock, except the commit, which holds two locks   *)
(* over several steps (lock, lock, seek, write, load, store).  What a peer *)
(* sends is an input of the read actions.                                  *)
(***************************************************************************)
EXTENDS Integers, Sequences, FiniteSets, TLC

(***************************************************************************)
(* Bounds of the model.                                                    *)
(***************************************************************************)
\* peers in the tracker's list (one worker per connected peer)
NumPeers == 2
\* total length L of the payload of the concurrent specification
PayloadLength == 3
\* piece length P of the concurrent specification
PieceLength == 2
\* bytes per block in the model (the program's MAX_BLOCK_SIZE is 16384)
ModelBlockSize == 2
\* the pipelining specification: one piece of PipeBlocks blocks of
\* PipeBlockSize bytes
PipeBlocks == 6
PipeBlockSize == 1
\* the modulus of u32 arithmetic, 2^32, counted in units of 4 bytes (2^32
\* itself is past the integers of the model checker).  The specification of
\* the piece partitioning counts lengths in these units, which is exact for
\* lengths that are multiples of 4; the other specifications count bytes
\* and none of their values reaches the modulus, so nothing wraps in them,
\* as nothing does in the program at these sizes.
Word == 1073741824

(***************************************************************************)
(* Program constants.                                                      *)
(***************************************************************************)
MAX_CONCURRENT_REQUESTS == 5
MAX_CONCURRENT_PEERS == 20
MAX_BLOCK_SIZE == 16384
\* the modulus of the u8 counter PieceState.blocks_done
U8 == 256

Peers == 1..NumPeers
NoPiece == [index |-> -1]
NoState == [index |-> -1]
NoBitfield == <<-1>>
NoHolder == 0
NoCall == [fn |-> "none"]

(***************************************************************************)
(* Sequences.                                                              *)
(***************************************************************************)
Last(s) == s[Len(s)]
Front(s) == SubSeq(s, 1, Len(s) - 1)
RemoveAt(s, k) == SubSeq(s, 1, k - 1) \o SubSeq(s, k + 1, Len(s))
Range(s) == {s[k] : k \in 1..Len(s)}
\* bytes [from, to) of s, 0-based as in the program
Slice(s, from, to) == SubSeq(s, from + 1, to)
Zeros(n) == [k \in 1..n |-> 0]
Min(a, b) == IF a <= b THEN a ELSE b
CeilDiv(a, b) == (a + b - 1) \div b

(***************************************************************************)
(* hash_sha1: the digest of a byte vector.  SHA-1 is modelled as collision *)
(* free on the vectors of the model: a base-4 numeral with a leading 1     *)
(* (bytes of the model are 0..3).                                          *)
(***************************************************************************)
RECURSIVE hash_sha1(_)
hash_sha1(v) ==
    IF v = <<>> THEN 1 ELSE 4 * hash_sha1(Front(v)) + Last(v)

(***************************************************************************)
(* The payload the swarm shares (never zero, so that a written byte        *)
(* differs from the pre-allocated file) and the torrent built from it.     *)
(***************************************************************************)
Payload(L) == [k \in 1..L |-> 1 + (k % 2)]

Torrent(L, P) ==
    [length |-> L,
     piece_length |-> P,
     pieces |-> [i \in 1..CeilDiv(L, P) |->
                    hash_sha1(Slice(Payload(L), (i - 1) * P, Min(i * P, L)))]]

calculate_length(t) == t.length

\* Piece::new
Piece_new(index, begin, length, hash) ==
    [index |-> index, hash |-> hash, length |-> length, begin |-> begin,
     end |-> (begin + length) % Word]

\* Torrent::create_piece_queue
create_piece_queue(t) ==
    LET n == Len(t.pieces)
        piece_length == t.piece_length
        length(index) ==
            IF index = n - 1 /\ calculate_length(t) % piece_length > 0
            THEN calculate_length(t) % piece_length
            ELSE piece_length
    IN [k \in 1..n |->
           Piece_new((k - 1) % Word, ((k - 1) * piece_length) % Word,
                     length(k - 1) % Word, t.pieces[k])]

\* Block::new (data is None until the block arrives)
Block_new(index, begin, end, length) ==
    [index |-> index, begin |-> begin, end |-> end, length |-> length]

\* n as f32: n rounded to 24 significant bits, ties to even
RECURSIVE Ulp(_, _)
Ulp(n, u) == IF n \div u < 16777216 THEN u ELSE Ulp(n, 2 * u)
F32(n) ==
    LET u == Ulp(n, 1)
        q == n \div u
        r == n % u
    IN IF 2 * r < u \/ (2 * r = u /\ q % 2 = 0) THEN q * u ELSE (q + 1) * u

\* Piece::create_block_queue, for a block size of bs bytes.  The f32
\* quotient is exact when bs is a power of two (16384 is), and its ceiling is
\* the exact one for the small lengths of the model.
create_block_queue(piece, bs) ==
    LET num_of_blocks == CeilDiv(F32(piece.length), bs)
        block_length(i) ==
            IF i = num_of_blocks - 1 /\ piece.length % bs > 0
            THEN piece.length % bs
            ELSE bs
    IN [k \in 1..num_of_blocks |->
           Block_new(k - 1, (k - 1) * bs, (k - 1) * bs + block_length(k - 1),
                     block_length(k - 1))]

\* Piece::check_integrity
MutCheckIntegrityAlwaysOk(piece, hash) == TRUE
check_integrity(piece, hash) == piece.hash = hash

(***************************************************************************)
(* Connection::has_piece and Connection::set_piece.  Both panic when the   *)
(* bitfield is None or the byte index is out of its bounds.                *)
(***************************************************************************)
Pow2(n) == IF n = 0 THEN 1 ELSE IF n = 1 THEN 2 ELSE IF n = 2 THEN 4
           ELSE IF n = 3 THEN 8 ELSE IF n = 4 THEN 16 ELSE IF n = 5 THEN 32
           ELSE IF n = 6 THEN 64 ELSE 128
BitSet(byte, offset) == (byte \div Pow2(7 - offset)) % 2 = 1
bit_access_panics(bf, index) == bf = NoBitfield \/ index \div 8 >= Len(bf)
MutHasPieceAnyBit(bf, index) == bf[(index \div 8) + 1] # 0
has_piece(bf, index) == BitSet(bf[(index \div 8) + 1], index % 8)
MutSetPieceLsbFirst(bf, index) ==
    [bf EXCEPT ![(index \div 8) + 1] =
        IF (@ \div Pow2(index % 8)) % 2 = 1 THEN @ ELSE @ + Pow2(index % 8)]
set_piece(bf, index) ==
    [bf EXCEPT ![(index \div 8) + 1] =
        IF BitSet(@, index % 8) THEN @ ELSE @ + Pow2(7 - (index % 8))]

(***************************************************************************)
(* State.                                                                  *)
(***************************************************************************)
VARIABLES
    torrent,        \* the Torrent (immutable)
    block_size,     \* Piece::MAX_BLOCK_SIZE of the run (immutable)
    piece_queue,    \* TorrentState.piece_queue: Vec<Piece>
    done_pieces,    \* TorrentState.done_pieces: u32
    done_mutex,     \* the Mutex of done_pieces: [holder, poisoned]
    file_mutex,     \* the Mutex of file: [holder, poisoned]
    file,           \* the bytes of the output file
    file_pos,       \* the cursor of the shared File handle
    peer_queue,     \* main: the peers still to try
    workers,        \* main: the workers spawned, in order
    joined,         \* main: how many of them are joined
    main_pc,        \* main: "connect", "join" or "exit"
    pc,             \* each worker's position
    chocked,        \* Connection.chocked
    bitfield,       \* Connection.bitfield (NoBitfield: None)
    work_piece,     \* download: the piece taken from the queue
    state,          \* try_download_piece: the PieceState
    done_tmp,       \* the value loaded by *done_pieces += 1
    commit_log,     \* history: the indices committed, in order
    unchoke_last,   \* history: the last of Choke / Unchoke read was Unchoke
    downloaded,     \* history: download() has returned
    input,          \* a function of the program applied on its own: its
    output          \* arguments and its result (NoCall: none)

vars == <<torrent, block_size, piece_queue, done_pieces, done_mutex,
          file_mutex, file, file_pos, peer_queue, workers, joined, main_pc,
          pc, chocked, bitfield, work_piece, state, done_tmp, commit_log,
          unchoke_last, downloaded, input, output>>

shared == <<piece_queue, done_pieces, done_mutex, file_mutex, file, file_pos,
            commit_log>>
main_vars == <<peer_queue, workers, joined, main_pc>>
fixed == <<torrent, block_size, input, output>>

PanicPcs == {"panic_read", "panic_message", "panic_send", "panic_bitfield",
             "panic_splice", "panic_poisoned", "panic_file"}
Terminated(w) == pc[w] = "ended" \/ pc[w] \in PanicPcs
Spawned(w) == pc[w] # "unspawned"
Live(w) == Spawned(w) /\ ~Terminated(w)

\* TorrentState.length
NumPieces == Len(torrent.pieces)

\* TorrentState::new and the locals of run() before the connect loop, for
\* a tracker list of n peers and the connections ws
InitFor(L, P, bs, n, ws) ==
    /\ torrent = Torrent(L, P)
    /\ block_size = bs
    /\ piece_queue = create_piece_queue(torrent)
    /\ done_pieces = 0
    /\ done_mutex = [holder |-> NoHolder, poisoned |-> FALSE]
    /\ file_mutex = [holder |-> NoHolder, poisoned |-> FALSE]
    /\ file = Zeros(calculate_length(torrent))
    /\ file_pos = 0
    /\ peer_queue = [k \in 1..n |-> k]
    /\ workers = <<>>
    /\ joined = 0
    /\ main_pc = "connect"
    /\ pc = [w \in ws |-> "unspawned"]
    /\ chocked = [w \in ws |-> TRUE]
    /\ bitfield = [w \in ws |-> NoBitfield]
    /\ work_piece = [w \in ws |-> NoPiece]
    /\ state = [w \in ws |-> NoState]
    /\ done_tmp = [w \in ws |-> 0]
    /\ commit_log = <<>>
    /\ unchoke_last = [w \in ws |-> FALSE]
    /\ downloaded = [w \in ws |-> FALSE]

InitWith(L, P, bs, n) ==
    /\ InitFor(L, P, bs, n, Peers)
    /\ input = NoCall
    /\ output = NoCall

Init ==
    \E n \in {0, NumPeers} :
        InitWith(PayloadLength, PieceLength, ModelBlockSize, n)

(***************************************************************************)
(* What a read of the connection can give: an I/O error, a frame that      *)
(* panics in Message::new (unknown id, payload too short), or a message.   *)
(***************************************************************************)
IoError == [kind |-> "io_error"]
Malformed == [kind |-> "malformed"]
Choke == [kind |-> "Choke"]
Unchoke == [kind |-> "Unchoke"]
\* KeepAlive, Interested, NotInterested, Request, Cancel: the arms `_`
Other == [kind |-> "Other"]
Have(i) == [kind |-> "Have", index |-> i]
Bitfield(bf) == [kind |-> "Bitfield", bitfield |-> bf]
PieceMsg(i, b, d) == [kind |-> "Piece", index |-> i, begin |-> b, data |-> d]

\* the bytes of block [begin, begin + block_size) of piece i of the payload
TrueData(i, begin) ==
    LET from == i * torrent.piece_length + begin
        to == Min(Min(from + block_size, (i + 1) * torrent.piece_length),
                  torrent.length)
    IN Slice(Payload(torrent.length), from, to)

\* the bitfields of one byte a peer may send: any set of the pieces 0 and 1
Bitfields == {<<64 * b>> : b \in 0..3}

BlockBegins == {k * block_size : k \in 0..(CeilDiv(torrent.piece_length, block_size) - 1)}

\* the data of a Piece message: right or wrong and, when any_length, also
\* one byte short or one byte long
DataChoices(i, begin, any_length) ==
    LET d == TrueData(i, begin)
    IN {d, Zeros(Len(d))}
       \cup (IF any_length THEN {Front(d), Append(d, 3)} ELSE {})

\* what a read may give when the peer may send anything; Have(8) is past a
\* bitfield of one byte
Reads(any_length) ==
    {IoError, Malformed, Choke, Unchoke, Other}
    \cup {Have(i) : i \in 0..(NumPieces - 1) \cup {8}}
    \cup {Bitfield(bf) : bf \in Bitfields}
    \cup UNION {{PieceMsg(i, b, d) : d \in DataChoices(i, b, any_length)} :
                    <<i, b>> \in (0..(NumPieces - 1)) \X BlockBegins}

(***************************************************************************)
(* main.rs, run(): the connect loop and the join of the workers.           *)
(***************************************************************************)
MainConnect(ok) ==
    /\ main_pc = "connect"
    /\ Len(workers) < MAX_CONCURRENT_PEERS
    /\ Len(peer_queue) > 0
    /\ LET peer == Last(peer_queue)
       IN /\ peer_queue' = Front(peer_queue)
          /\ IF ok
             THEN /\ pc' = [pc EXCEPT ![peer] = "start"]
                  /\ workers' = Append(workers, peer)
             ELSE UNCHANGED <<pc, workers>>
    /\ UNCHANGED <<fixed, shared, joined, main_pc, chocked, bitfield,
                   work_piece, state, done_tmp, unchoke_last, downloaded>>

MainConnectDone ==
    /\ main_pc = "connect"
    /\ ~(Len(workers) < MAX_CONCURRENT_PEERS /\ Len(peer_queue) > 0)
    /\ main_pc' = "join"
    /\ UNCHANGED <<fixed, shared, peer_queue, workers, joined, pc, chocked,
                   bitfield, work_piece, state, done_tmp, unchoke_last,
                   downloaded>>

MainJoin ==
    /\ main_pc = "join"
    /\ joined < Len(workers)
    /\ Terminated(workers[joined + 1])
    /\ joined' = joined + 1
    /\ UNCHANGED <<fixed, shared, peer_queue, workers, main_pc, pc, chocked,
                   bitfield, work_piece, state, done_tmp, unchoke_last,
                   downloaded>>

MainExit ==
    /\ main_pc = "join"
    /\ joined = Len(workers)
    /\ main_pc' = "exit"
    /\ UNCHANGED <<fixed, shared, peer_queue, workers, joined, pc, chocked,
                   bitfield, work_piece, state, done_tmp, unchoke_last,
                   downloaded>>

(***************************************************************************)
(* download_worker.rs: the worker.                                         *)
(***************************************************************************)
\* where the thread is once download() has returned: the loop of start()
\* tests self.conn.chocked again
AfterDownload(w) == IF chocked[w] THEN "start" ELSE "ended"

\* Mutex::lock blocks while another thread holds the guard
MutLockNeverBlocks(m) == TRUE
lock_free(m) == m.holder = NoHolder

\* TorrentState::is_done, under the lock of done_pieces
MutIsDoneStrict(done, length) == done > length
is_done(done, length) == done >= length

\* Vec::pop on piece_queue: what is left of the queue
MutQueueKeepsPiece(q) == q
queue_after_pop(q) == Front(q)

\* PieceState::new
PieceState_new(piece) ==
    [index |-> piece.index,
     begin |-> piece.begin,
     requested_blocks |-> <<>>,
     buf |-> Zeros(piece.length),
     block_queue |-> create_block_queue(piece, block_size),
     blocks_done |-> 0]

\* try_download_piece: `if !self.conn.chocked`
MutRequestsWhileChocked(w) == TRUE
not_chocked(w) == ~chocked[w]

\* try_download_piece: the condition of the inner while
MutNoRequestLimit(st) == st.block_queue # <<>>
room_for_request(st) ==
    /\ Len(st.requested_blocks) < MAX_CONCURRENT_REQUESTS
    /\ st.block_queue # <<>>

\* send_request, Ok: the block popped from block_queue is in
\* requested_blocks
MutSendKeepsPending(st) ==
    [st EXCEPT !.requested_blocks = Append(@, Last(st.block_queue))]
send_request(st) ==
    [st EXCEPT !.block_queue = Front(@),
               !.requested_blocks = Append(@, Last(st.block_queue))]

\* read_message: requested_blocks.iter().position(|b| b.begin == begin),
\* 0 for None
position(blocks, begin) ==
    IF \E k \in 1..Len(blocks) : blocks[k].begin = begin
    THEN CHOOSE k \in 1..Len(blocks) :
            /\ blocks[k].begin = begin
            /\ \A j \in 1..(k - 1) : blocks[j].begin # begin
    ELSE 0

\* Vec::splice(begin..end, data) panics when end is past the vector
splice_panics(buf, block) == block.end > Len(buf) \/ block.begin > block.end
splice(buf, block, data) ==
    SubSeq(buf, 1, block.begin) \o data \o SubSeq(buf, block.end + 1, Len(buf))

\* read_message: the place in requested_blocks of the block a message
\* delivers, 0 when it delivers none (not a Piece, another piece index, no
\* requested block with this begin)
block_index(st, r) ==
    IF r.kind = "Piece" /\ r.index = st.index
    THEN position(st.requested_blocks, r.begin) ELSE 0

\* read_message, Some(block_index), and store_in_buffer: the PieceState
\* once block k of requested_blocks has arrived with data (blocks_done is
\* a u8: the sum wraps where the build has no overflow checks)
received(st, k, data) ==
    [st EXCEPT !.requested_blocks = RemoveAt(@, k),
               !.blocks_done = (@ + 1) % U8,
               !.buf = splice(@, st.requested_blocks[k], data)]

\* copy_to_file: the offset of the seek
MutSeekToStart(st) == 0
seek_offset(st) == st.begin

\* write_all at the cursor: the file with the first n bytes of buf written
write_at(f, pos, buf, n) ==
    [k \in 1..(IF pos + n > Len(f) THEN pos + n ELSE Len(f)) |->
        IF k > pos /\ k <= pos + n THEN buf[k - pos]
        ELSE IF k <= Len(f) THEN f[k] ELSE 0]

\* start(): one turn of `while self.conn.chocked` reading r on the
\* connection conn: the position of the thread and the connection
\* afterwards (send_ok: both sends of the Bitfield arm go through)
start_turn(conn, r, send_ok) ==
    [pc |-> CASE r.kind = "io_error" -> "panic_read"
              [] r.kind = "malformed" -> "panic_message"
              [] r.kind = "Bitfield" ->
                    IF send_ok THEN "start" ELSE "panic_send"
              [] r.kind = "Unchoke" -> "dl_check"
              [] OTHER -> "start",
     chocked |-> IF r.kind = "Unchoke" THEN FALSE ELSE conn.chocked,
     bitfield |-> IF r.kind = "Bitfield" THEN r.bitfield ELSE conn.bitfield]

\* start(): one turn of `while self.conn.chocked`, reading r
Start(w, r, send_ok) ==
    /\ pc[w] = "start"
    /\ LET turn == start_turn([chocked |-> chocked[w],
                               bitfield |-> bitfield[w]], r, send_ok)
       IN /\ pc' = [pc EXCEPT ![w] = turn.pc]
          /\ chocked' = [chocked EXCEPT ![w] = turn.chocked]
          /\ bitfield' = [bitfield EXCEPT ![w] = turn.bitfield]
    /\ unchoke_last' = [unchoke_last EXCEPT ![w] =
                          IF r.kind = "Unchoke" THEN TRUE
                          ELSE IF r.kind = "Choke" THEN FALSE ELSE @]
    /\ UNCHANGED <<fixed, shared, main_vars, work_piece, state, done_tmp,
                   downloaded>>

\* download(): `while !self.torrent_state.is_done()`
CheckDone(w) ==
    /\ pc[w] = "dl_check"
    /\ lock_free(done_mutex)
    /\ IF done_mutex.poisoned
       THEN /\ pc' = [pc EXCEPT ![w] = "panic_poisoned"]
            /\ UNCHANGED downloaded
       ELSE IF is_done(done_pieces, NumPieces)
       THEN /\ pc' = [pc EXCEPT ![w] = AfterDownload(w)]
            /\ downloaded' = [downloaded EXCEPT ![w] = TRUE]
       ELSE /\ pc' = [pc EXCEPT ![w] = "dl_take"]
            /\ UNCHANGED downloaded
    /\ UNCHANGED <<fixed, shared, main_vars, chocked, bitfield, work_piece,
                   state, done_tmp, unchoke_last>>

\* download(): get_piece_from_queue, then has_piece and PieceState::new
TakePiece(w) ==
    /\ pc[w] = "dl_take"
    /\ IF piece_queue = <<>>
       THEN /\ pc' = [pc EXCEPT ![w] = AfterDownload(w)]
            /\ downloaded' = [downloaded EXCEPT ![w] = TRUE]
            /\ UNCHANGED <<piece_queue, work_piece, state>>
       ELSE LET piece == Last(piece_queue)
            IN /\ piece_queue' = queue_after_pop(piece_queue)
               /\ UNCHANGED downloaded
               /\ IF bit_access_panics(bitfield[w], piece.index)
                  THEN /\ pc' = [pc EXCEPT ![w] = "panic_bitfield"]
                       /\ UNCHANGED <<work_piece, state>>
                  ELSE IF ~has_piece(bitfield[w], piece.index)
                  THEN /\ pc' = [pc EXCEPT ![w] = "dl_requeue"]
                       /\ work_piece' = [work_piece EXCEPT ![w] = piece]
                       /\ UNCHANGED state
                  ELSE /\ pc' = [pc EXCEPT ![w] = "tdp_loop"]
                       /\ work_piece' = [work_piece EXCEPT ![w] = piece]
                       /\ state' = [state EXCEPT ![w] = PieceState_new(piece)]
    /\ UNCHANGED <<fixed, done_pieces, done_mutex, file_mutex, file, file_pos,
                   commit_log, main_vars, chocked, bitfield, done_tmp,
                   unchoke_last>>

\* download(): the peer lacks the piece: push it back, sleep, continue
ReturnPiece(w) ==
    /\ pc[w] = "dl_requeue"
    /\ piece_queue' = Append(piece_queue, work_piece[w])
    /\ work_piece' = [work_piece EXCEPT ![w] = NoPiece]
    /\ pc' = [pc EXCEPT ![w] = "dl_check"]
    /\ UNCHANGED <<fixed, done_pieces, done_mutex, file_mutex, file, file_pos,
                   commit_log, main_vars, chocked, bitfield, state, done_tmp,
                   unchoke_last, downloaded>>

\* try_download_piece: one turn of the inner while: pop a block and
\* send_request (conn.send may fail: Err(IOError))
SendRequest(w, send_ok) ==
    /\ pc[w] = "tdp_loop"
    /\ not_chocked(w)
    /\ room_for_request(state[w])
    /\ IF send_ok
       THEN /\ state' = [state EXCEPT ![w] = send_request(@)]
            /\ UNCHANGED pc
       ELSE /\ state' = [state EXCEPT ![w] = NoState]
            /\ pc' = [pc EXCEPT ![w] = "dl_fail"]
    /\ UNCHANGED <<fixed, shared, main_vars, chocked, bitfield, work_piece,
                   done_tmp, unchoke_last, downloaded>>

\* try_download_piece: state.read_message reading r, then store_in_buffer
ReadMessage(w, r) ==
    /\ pc[w] = "tdp_loop"
    /\ state[w].block_queue # <<>> \/ state[w].requested_blocks # <<>>
    /\ ~(not_chocked(w) /\ room_for_request(state[w]))
    /\ LET st == state[w]
           k == block_index(st, r)
           have_panics == r.kind = "Have" /\ bit_access_panics(bitfield[w], r.index)
           store_panics == k > 0 /\ splice_panics(st.buf, st.requested_blocks[k])
       IN /\ pc' = [pc EXCEPT ![w] =
                       CASE r.kind = "io_error" -> "dl_fail"
                         [] r.kind = "malformed" -> "panic_message"
                         [] have_panics -> "panic_bitfield"
                         [] store_panics -> "panic_splice"
                         [] OTHER -> "tdp_loop"]
          /\ state' = [state EXCEPT ![w] =
                          IF r.kind \in {"io_error", "malformed"}
                             \/ have_panics \/ store_panics
                          THEN NoState
                          ELSE IF k > 0
                          THEN received(st, k, r.data)
                          ELSE st]
          /\ work_piece' = [work_piece EXCEPT ![w] =
                               IF r.kind = "malformed" \/ have_panics \/ store_panics
                               THEN NoPiece ELSE @]
          /\ bitfield' = [bitfield EXCEPT ![w] =
                            IF r.kind = "Have" /\ ~have_panics
                            THEN set_piece(@, r.index) ELSE @]
    /\ chocked' = [chocked EXCEPT ![w] =
                     IF r.kind = "Choke" THEN TRUE
                     ELSE IF r.kind = "Unchoke" THEN FALSE ELSE @]
    /\ unchoke_last' = [unchoke_last EXCEPT ![w] =
                          IF r.kind = "Unchoke" THEN TRUE
                          ELSE IF r.kind = "Choke" THEN FALSE ELSE @]
    /\ UNCHANGED <<fixed, shared, main_vars, done_tmp, downloaded>>

\* try_download_piece: after the loop, check_integrity(hash_sha1(buf))
CheckPiece(w) ==
    /\ pc[w] = "tdp_loop"
    /\ state[w].block_queue = <<>>
    /\ state[w].requested_blocks = <<>>
    /\ IF check_integrity(work_piece[w], hash_sha1(state[w].buf))
       THEN /\ pc' = [pc EXCEPT ![w] = "commit_lock_done"]
            /\ UNCHANGED state
       ELSE /\ pc' = [pc EXCEPT ![w] = "dl_fail"]
            /\ state' = [state EXCEPT ![w] = NoState]
    /\ UNCHANGED <<fixed, shared, main_vars, chocked, bitfield, work_piece,
                   done_tmp, unchoke_last, downloaded>>

\* download(): Err(e): push the piece back and break
FailPiece(w) ==
    /\ pc[w] = "dl_fail"
    /\ piece_queue' = Append(piece_queue, work_piece[w])
    /\ work_piece' = [work_piece EXCEPT ![w] = NoPiece]
    /\ pc' = [pc EXCEPT ![w] = AfterDownload(w)]
    /\ downloaded' = [downloaded EXCEPT ![w] = TRUE]
    /\ UNCHANGED <<fixed, done_pieces, done_mutex, file_mutex, file, file_pos,
                   commit_log, main_vars, chocked, bitfield, state, done_tmp,
                   unchoke_last>>

(***************************************************************************)
(* download(): Ok(piece): the commit.  A panic while the guards are held   *)
(* poisons both mutexes and drops the piece.                               *)
(***************************************************************************)
MutPanicUnlocksClean(w) ==
    /\ pc' = [pc EXCEPT ![w] = "panic_file"]
    /\ done_mutex' = [holder |-> NoHolder, poisoned |-> FALSE]
    /\ file_mutex' = [holder |-> NoHolder, poisoned |-> FALSE]
    /\ work_piece' = [work_piece EXCEPT ![w] = NoPiece]
    /\ state' = [state EXCEPT ![w] = NoState]
PanicInCommit(w) ==
    /\ pc' = [pc EXCEPT ![w] = "panic_file"]
    /\ done_mutex' = [holder |-> NoHolder, poisoned |-> TRUE]
    /\ file_mutex' = [holder |-> NoHolder, poisoned |-> TRUE]
    /\ work_piece' = [work_piece EXCEPT ![w] = NoPiece]
    /\ state' = [state EXCEPT ![w] = NoState]

\* self.torrent_state.done_pieces.lock().unwrap()
LockDone(w) ==
    /\ pc[w] = "commit_lock_done"
    /\ lock_free(done_mutex)
    /\ IF done_mutex.poisoned
       THEN /\ pc' = [pc EXCEPT ![w] = "panic_poisoned"]
            /\ work_piece' = [work_piece EXCEPT ![w] = NoPiece]
            /\ state' = [state EXCEPT ![w] = NoState]
            /\ UNCHANGED done_mutex
       ELSE /\ pc' = [pc EXCEPT ![w] = "commit_lock_file"]
            /\ done_mutex' = [done_mutex EXCEPT !.holder = w]
            /\ UNCHANGED <<work_piece, state>>
    /\ UNCHANGED <<fixed, piece_queue, done_pieces, file_mutex, file, file_pos,
                   commit_log, main_vars, chocked, bitfield, done_tmp,
                   unchoke_last, downloaded>>

\* self.torrent_state.file.lock().unwrap()
LockFile(w) ==
    /\ pc[w] = "commit_lock_file"
    /\ lock_free(file_mutex)
    /\ IF file_mutex.poisoned
       THEN /\ pc' = [pc EXCEPT ![w] = "panic_poisoned"]
            /\ done_mutex' = [holder |-> NoHolder, poisoned |-> TRUE]
            /\ work_piece' = [work_piece EXCEPT ![w] = NoPiece]
            /\ state' = [state EXCEPT ![w] = NoState]
            /\ UNCHANGED file_mutex
       ELSE /\ pc' = [pc EXCEPT ![w] = "commit_seek"]
            /\ file_mutex' = [file_mutex EXCEPT !.holder = w]
            /\ UNCHANGED <<done_mutex, work_piece, state>>
    /\ UNCHANGED <<fixed, piece_queue, done_pieces, file, file_pos,
                   commit_log, main_vars, chocked, bitfield, done_tmp,
                   unchoke_last, downloaded>>

\* copy_to_file: file.seek(SeekFrom::Start(self.begin as u64))?
Seek(w, ok) ==
    /\ pc[w] = "commit_seek"
    /\ IF ok
       THEN /\ file_pos' = seek_offset(state[w])
            /\ pc' = [pc EXCEPT ![w] = "commit_write"]
            /\ UNCHANGED <<done_mutex, file_mutex, work_piece, state>>
       ELSE /\ PanicInCommit(w)
            /\ UNCHANGED file_pos
    /\ UNCHANGED <<fixed, piece_queue, done_pieces, file, commit_log,
                   main_vars, chocked, bitfield, done_tmp, unchoke_last,
                   downloaded>>

\* copy_to_file: file.write_all(&self.buf)?, n bytes written (all of them,
\* or fewer and an error)
Write(w, n) ==
    /\ pc[w] = "commit_write"
    /\ n \in 0..Len(state[w].buf)
    /\ file' = write_at(file, file_pos, state[w].buf, n)
    /\ file_pos' = file_pos + n
    /\ IF n = Len(state[w].buf)
       THEN /\ pc' = [pc EXCEPT ![w] = "commit_load"]
            /\ UNCHANGED <<done_mutex, file_mutex, work_piece, state>>
       ELSE PanicInCommit(w)
    /\ UNCHANGED <<fixed, piece_queue, done_pieces, commit_log, main_vars,
                   chocked, bitfield, done_tmp, unchoke_last, downloaded>>

\* *done_pieces += 1: the load
LoadDone(w) ==
    /\ pc[w] = "commit_load"
    /\ done_tmp' = [done_tmp EXCEPT ![w] = done_pieces]
    /\ pc' = [pc EXCEPT ![w] = "commit_store"]
    /\ UNCHANGED <<fixed, shared, main_vars, chocked, bitfield, work_piece,
                   state, unchoke_last, downloaded>>

\* *done_pieces += 1: the store; then the guards and the piece are dropped
StoreDone(w) ==
    /\ pc[w] = "commit_store"
    /\ done_pieces' = (done_tmp[w] + 1) % Word
    /\ done_tmp' = [done_tmp EXCEPT ![w] = 0]
    /\ commit_log' = Append(commit_log, work_piece[w].index)
    /\ done_mutex' = [done_mutex EXCEPT !.holder = NoHolder]
    /\ file_mutex' = [file_mutex EXCEPT !.holder = NoHolder]
    /\ work_piece' = [work_piece EXCEPT ![w] = NoPiece]
    /\ state' = [state EXCEPT ![w] = NoState]
    /\ pc' = [pc EXCEPT ![w] = "dl_check"]
    /\ UNCHANGED <<fixed, piece_queue, file, file_pos, main_vars, chocked,
                   bitfield, unchoke_last, downloaded>>

(***************************************************************************)
(* The specifications.                                                     *)
(***************************************************************************)
MainStep ==
    \/ \E ok \in BOOLEAN : MainConnect(ok)
    \/ MainConnectDone
    \/ MainJoin
    \/ MainExit

\* The concurrent specification: NumPeers peers that may send anything, a
\* payload of two pieces of one block each.
Next ==
    \/ MainStep
    \/ \E w \in Peers, r \in Reads(FALSE), ok \in BOOLEAN : Start(w, r, ok)
    \/ \E w \in Peers : CheckDone(w)
    \/ \E w \in Peers : TakePiece(w)
    \/ \E w \in Peers : ReturnPiece(w)
    \/ \E w \in Peers, ok \in BOOLEAN : SendRequest(w, ok)
    \/ \E w \in Peers, r \in Reads(FALSE) : ReadMessage(w, r)
    \/ \E w \in Peers : CheckPiece(w)
    \/ \E w \in Peers : FailPiece(w)
    \/ \E w \in Peers : LockDone(w)
    \/ \E w \in Peers : LockFile(w)
    \/ \E w \in Peers, ok \in BOOLEAN : Seek(w, ok)
    \/ \E w \in Peers, n \in 0..Len(file) : Write(w, n)
    \/ \E w \in Peers : LoadDone(w)
    \/ \E w \in Peers : StoreDone(w)

Spec == Init /\ [][Next]_vars

\* The pipelining specification: one peer that may send anything, one piece
\* of more blocks than MAX_CONCURRENT_REQUESTS.
InitPipe ==
    InitWith(PipeBlocks * PipeBlockSize, PipeBlocks * PipeBlockSize,
             PipeBlockSize, 1)

SpecPipe == InitPipe /\ [][Next]_vars

(***************************************************************************)
(* The fair specification: peers that answer as the protocol asks (a       *)
(* bitfield, Unchoke, the right bytes of a requested block), no I/O error, *)
(* and every thread scheduled again and again.                             *)
(***************************************************************************)
CoopReads(w) ==
    {Unchoke}
    \cup {Bitfield(bf) : bf \in Bitfields}
    \cup (IF state[w] = NoState THEN {}
          ELSE {PieceMsg(state[w].index, b.begin, TrueData(state[w].index, b.begin)) :
                   b \in Range(state[w].requested_blocks)})

WorkerCoop(w) ==
    \/ \E r \in CoopReads(w) : Start(w, r, TRUE)
    \/ CheckDone(w)
    \/ TakePiece(w)
    \/ ReturnPiece(w)
    \/ SendRequest(w, TRUE)
    \/ \E r \in CoopReads(w) : ReadMessage(w, r)
    \/ CheckPiece(w)
    \/ LockDone(w)
    \/ LockFile(w)
    \/ Seek(w, TRUE)
    \/ Write(w, Len(state[w].buf))
    \/ LoadDone(w)
    \/ StoreDone(w)

NextCoop ==
    \/ \E ok \in BOOLEAN : MainConnect(ok)
    \/ MainConnectDone
    \/ MainJoin
    \/ MainExit
    \/ \E w \in Peers : \E r \in CoopReads(w) : Start(w, r, TRUE)
    \/ \E w \in Peers : CheckDone(w)
    \/ \E w \in Peers : TakePiece(w)
    \/ \E w \in Peers : ReturnPiece(w)
    \/ \E w \in Peers : SendRequest(w, TRUE)
    \/ \E w \in Peers : \E r \in CoopReads(w) : ReadMessage(w, r)
    \/ \E w \in Peers : CheckPiece(w)
    \/ \E w \in Peers : LockDone(w)
    \/ \E w \in Peers : LockFile(w)
    \/ \E w \in Peers : Seek(w, TRUE)
    \/ \E w \in Peers : Write(w, Len(state[w].buf))
    \/ \E w \in Peers : LoadDone(w)
    \/ \E w \in Peers : StoreDone(w)

FairSpec ==
    /\ Init
    /\ [][NextCoop]_vars
    /\ WF_vars(MainStep)
    /\ \A w \in Peers : WF_vars(WorkerCoop(w))

(***************************************************************************)
(* Vocabulary of the properties.                                           *)
(***************************************************************************)
PieceIndices == 0..(NumPieces - 1)
InQueueCount(i) == Cardinality({k \in 1..Len(piece_queue) : piece_queue[k].index = i})
HeldCount(i) == Cardinality({w \in Peers : work_piece[w].index = i})
CommitCount(i) == Cardinality({k \in 1..Len(commit_log) : commit_log[k] = i})
InQueue(i) == InQueueCount(i) > 0
Held(i) == HeldCount(i) > 0
CommitPcs == {"commit_lock_done", "commit_lock_file", "commit_seek",
              "commit_write", "commit_load", "commit_store"}
LoopPcs == {"dl_check", "dl_take", "dl_requeue", "tdp_loop", "dl_fail"}
             \cup CommitPcs
InLoop(w) == pc[w] \in LoopPcs
\* the loop of try_download_piece is over: the hash check is next
Assembled(w) ==
    /\ pc[w] = "tdp_loop"
    /\ state[w].block_queue = <<>>
    /\ state[w].requested_blocks = <<>>
\* H[i], and the place of piece i in the file
H(i) == torrent.pieces[i + 1]
PieceFrom(i) == i * torrent.piece_length
PieceTo(i) == Min((i + 1) * torrent.piece_length, torrent.length)

(***************************************************************************)
(* C1: in every reachable state no piece index is in two places at once:   *)
(* over the work queue, the workers' in-flight slots and the committed     *)
(* pieces, each index is counted at most once.                             *)
(***************************************************************************)
C1_PieceInOnePlace ==
    \A i \in PieceIndices : InQueueCount(i) + HeldCount(i) + CommitCount(i) <= 1

\* two workers hold pieces at the same time
C1_Witness ==
    \E w1, w2 \in Peers :
        /\ w1 # w2
        /\ pc[w1] = "tdp_loop" /\ pc[w2] = "tdp_loop"
        /\ work_piece[w1] # NoPiece /\ work_piece[w2] # NoPiece

(***************************************************************************)
(* C2: when a worker that holds a piece ends because of a protocol error   *)
(* (a frame Message::new rejects), an I/O error or a hash mismatch, the    *)
(* piece is in the work queue afterwards; so no piece is ever lost: each   *)
(* piece that is not committed is in the queue or held by a live worker.   *)
(***************************************************************************)
C2_NoPieceLost ==
    \A i \in PieceIndices :
        \/ CommitCount(i) > 0
        \/ InQueue(i)
        \/ \E w \in Peers : Live(w) /\ work_piece[w].index = i

C2_PieceReturnedOnError ==
    /\ [][\A w \in Peers :
            (/\ work_piece[w] # NoPiece
             /\ pc[w] \in {"tdp_loop", "dl_fail"}
             /\ pc'[w] \in {"panic_message", "ended", "start"})
            => \E k \in 1..Len(piece_queue') :
                  piece_queue'[k].index = work_piece[w].index]_vars
    /\ []C2_NoPieceLost

(***************************************************************************)
(* C3: a piece reaches the commit only when the SHA-1 of its assembled     *)
(* buffer is H[i]: try_download_piece succeeds exactly when the hashes are *)
(* equal, a mismatch leaves the file and done as they were, and the file   *)
(* and done change only in the commit of a worker whose buffer has the     *)
(* hash H[i].                                                              *)
(***************************************************************************)
C3_CommitOnlyVerified ==
    /\ [][\A w \in Peers :
            (Assembled(w) /\ pc'[w] # "tdp_loop")
            => /\ (pc'[w] = "commit_lock_done")
                    <=> (hash_sha1(state[w].buf) = H(work_piece[w].index))
               /\ pc'[w] # "commit_lock_done"
                    => (pc'[w] = "dl_fail" /\ file' = file
                        /\ done_pieces' = done_pieces)]_vars
    /\ [][(file' # file \/ done_pieces' # done_pieces)
            => \E w \in Peers :
                  /\ pc[w] \in CommitPcs
                  /\ hash_sha1(state[w].buf) = H(work_piece[w].index)]_vars

\* one worker is at the hash check with wrong bytes while another one has
\* passed it
C3_Witness ==
    \E w1, w2 \in Peers :
        /\ Assembled(w1)
        /\ hash_sha1(state[w1].buf) # H(work_piece[w1].index)
        /\ pc[w2] \in CommitPcs

(***************************************************************************)
(* C4: done equals the number of commits performed so far, and no piece    *)
(* index is committed twice.                                               *)
(***************************************************************************)
C4_DoneCountsCommits ==
    /\ done_pieces = Len(commit_log)
    /\ \A i \in PieceIndices : CommitCount(i) <= 1

\* both pieces are committed, by two different workers
C4_Witness ==
    /\ done_pieces = 2
    /\ \E w1, w2 \in Peers : w1 # w2 /\ pc[w1] = "dl_check" /\ pc[w2] = "dl_check"

(***************************************************************************)
(* C5: done never decreases and never exceeds the number of pieces N, and  *)
(* is_done() answers true exactly when done >= N (the worker leaves the    *)
(* loop on true and goes on to take a piece on false).                     *)
(***************************************************************************)
C5_DoneMonotoneBounded ==
    /\ [](done_pieces <= NumPieces)
    /\ [][done_pieces' >= done_pieces]_vars
    /\ [][\A w \in Peers :
            (pc[w] = "dl_check" /\ pc'[w] \notin {"dl_check", "panic_poisoned"})
            => ((pc'[w] # "dl_take") <=> (done_pieces >= NumPieces))]_vars

\* a worker is about to call is_done() with every piece committed
C5_Witness ==
    /\ done_pieces = NumPieces
    /\ \E w \in Peers : pc[w] = "dl_check"

(***************************************************************************)
(* C6: the file has length L in every state; the file changes only in the  *)
(* write of a commit, and only inside [i*P, i*P + length_i) of the piece i *)
(* committed, which a complete write fills with the piece buffer; with no  *)
(* worker spawned the file is L zero bytes.                                *)
(***************************************************************************)
C6_CommitWritesItsRange ==
    /\ [](Len(file) = torrent.length)
    /\ [](workers = <<>> => file = Zeros(torrent.length))
    /\ [][file' # file
            => \E w \in Peers :
                  /\ pc[w] = "commit_write"
                  /\ Len(file') = Len(file)
                  /\ \A k \in 1..Len(file) :
                        (k <= PieceFrom(work_piece[w].index)
                         \/ k > PieceTo(work_piece[w].index))
                        => file'[k] = file[k]]_vars
    /\ [][\A w \in Peers :
            (pc[w] = "commit_write" /\ pc'[w] = "commit_load")
            => \A k \in 1..Len(file') :
                  file'[k] =
                     IF k > PieceFrom(work_piece[w].index)
                        /\ k <= PieceTo(work_piece[w].index)
                     THEN state[w].buf[k - PieceFrom(work_piece[w].index)]
                     ELSE file[k]]_vars

\* the second piece is committed and the first is not: the file begins with
\* zeros and ends with the payload
C6_Witness ==
    /\ commit_log = <<1>>
    /\ Slice(file, PieceFrom(1), PieceTo(1))
          = Slice(Payload(torrent.length), PieceFrom(1), PieceTo(1))
    /\ Slice(file, PieceFrom(0), PieceTo(0)) = Zeros(torrent.piece_length)
    /\ \E w \in Peers : pc[w] = "commit_write" /\ work_piece[w].index = 0

(***************************************************************************)
(* C7: at every point of try_download_piece at most 5 blocks are requested *)
(* and not yet received, whatever the peer sends.                          *)
(***************************************************************************)
C7_AtMostFiveInFlight ==
    \A w \in Peers :
        state[w] # NoState => Len(state[w].requested_blocks) <= 5

\* five blocks are in flight and the piece has more blocks to request
C7_Witness ==
    \E w \in Peers :
        /\ pc[w] = "tdp_loop"
        /\ Len(state[w].requested_blocks) = 5
        /\ state[w].block_queue # <<>>

(***************************************************************************)
(* C8: a worker never sends a Request while its choked flag is true: the   *)
(* connection starts choked, the flag is true exactly when the last of     *)
(* Choke/Unchoke received was not Unchoke, every Request is sent with the  *)
(* flag false, and a choked worker inside try_download_piece can still     *)
(* read a message.                                                         *)
(***************************************************************************)
C8_NoRequestWhileChocked ==
    /\ [](\A w \in Peers : pc[w] = "unspawned" => chocked[w])
    /\ [](\A w \in Peers : chocked[w] <=> ~unchoke_last[w])
    /\ [][\A w \in Peers :
            (/\ pc[w] = "tdp_loop"
             /\ state'[w] # NoState
             /\ Len(state'[w].block_queue) < Len(state[w].block_queue))
            => (~chocked[w] /\ unchoke_last[w])]_vars
    /\ [](\A w \in Peers :
            (/\ pc[w] = "tdp_loop"
             /\ chocked[w]
             /\ state[w].requested_blocks # <<>>)
            => ENABLED ReadMessage(w, Other))

\* a choked worker has blocks left to request and room in the pipeline
C8_Witness ==
    \E w \in Peers :
        /\ pc[w] = "tdp_loop"
        /\ chocked[w]
        /\ state[w].block_queue # <<>>
        /\ state[w].requested_blocks # <<>>
        /\ Len(state[w].requested_blocks) < 5

(***************************************************************************)
(* C9: with every thread scheduled again and again, a piece that is in the *)
(* work queue while some worker is in its download loop and done < N is    *)
(* eventually taken by a worker (or the download completes, or no worker   *)
(* is left in the loop).                                                   *)
(***************************************************************************)
C9_QueuedPieceEventuallyTaken ==
    \A i \in 0..(CeilDiv(PayloadLength, PieceLength) - 1) :
        (/\ InQueue(i)
         /\ done_pieces < NumPieces
         /\ \E w \in Peers : InLoop(w))
        ~> (\/ Held(i)
            \/ done_pieces >= NumPieces
            \/ ~\E w \in Peers : InLoop(w))

(***************************************************************************)
(* C10: once the download loop of a worker has ended (is_done() true, the  *)
(* queue empty, or try_download_piece failed) the thread of the worker is  *)
(* over, whatever the choked flag: it is not back in the reading loop of   *)
(* start() and it takes no further step.                                   *)
(***************************************************************************)
C10_ThreadEndsWithLoop ==
    /\ [](\A w \in Peers : downloaded[w] => pc[w] = "ended")
    /\ [][\A w \in Peers : downloaded[w] => pc'[w] = pc[w]]_vars

(***************************************************************************)
(* C11: with every thread scheduled again and again and peers that answer, *)
(* a worker that has entered its download loop eventually terminates (so   *)
(* that main's join can complete), also when done < N and the pieces left  *)
(* are ones its peer does not have.                                        *)
(***************************************************************************)
C11_WorkerTerminates ==
    \A w \in Peers : InLoop(w) ~> Terminated(w)

(***************************************************************************)
(* C12: two pieces, two workers, peer 1 advertising piece 0 only (0x80)    *)
(* and peer 2 piece 1 only (0x40), both answering every Request with the   *)
(* right bytes: under fair scheduling the run reaches done = 2 with the    *)
(* whole payload in the file.                                              *)
(***************************************************************************)
C12_BothPiecesLand ==
    (/\ InLoop(1) /\ bitfield[1] = <<128>>
     /\ InLoop(2) /\ bitfield[2] = <<64>>)
    ~> (/\ done_pieces = 2
        /\ file = Payload(PayloadLength))

(***************************************************************************)
(* C13: no worker does the seek or the write of a commit while it holds    *)
(* the lock of the done counter, so no worker calling is_done() waits for  *)
(* that lock during another worker's file I/O.                             *)
(***************************************************************************)
C13_DoneLockNotHeldOverFileIO ==
    \A w \in Peers :
        pc[w] \in {"commit_seek", "commit_write"} => done_mutex.holder # w

(***************************************************************************)
(* C14: a worker that is unchoked without having received a Bitfield keeps *)
(* running: has_piece is false for the piece it takes, which goes back to  *)
(* the queue; the worker does not fail.                                    *)
(***************************************************************************)
C14_AbsentBitfieldTolerated ==
    /\ [][\A w \in Peers :
            (/\ pc[w] = "dl_take"
             /\ bitfield[w] = NoBitfield
             /\ piece_queue # <<>>
             /\ pc'[w] # pc[w])
            => /\ pc'[w] = "dl_requeue"
               /\ work_piece'[w] = Last(piece_queue)]_vars
    /\ [](\A w \in Peers :
            bitfield[w] = NoBitfield => pc[w] # "panic_bitfield")

(***************************************************************************)
(* The specification of main's connect loop: a tracker list longer than    *)
(* MAX_CONCURRENT_PEERS, of which at most MaxFailing peers fail to connect *)
(* or to handshake.  The loop reads nothing a worker writes, so a worker   *)
(* runs only when main waits for it in the join, and its peer closes the   *)
(* connection at the first read.                                           *)
(***************************************************************************)
ListPeers == 22
MaxFailing == 2

InitMain ==
    /\ InitFor(PayloadLength, PieceLength, ModelBlockSize, ListPeers,
               1..ListPeers)
    /\ input = NoCall
    /\ output = NoCall

\* the peers tried so far that gave no connection
Failed == (ListPeers - Len(peer_queue)) - Len(workers)

NextMain ==
    \/ \E ok \in BOOLEAN : (ok \/ Failed < MaxFailing) /\ MainConnect(ok)
    \/ MainConnectDone
    \/ MainJoin
    \/ MainExit
    \/ /\ main_pc = "join"
       /\ joined < Len(workers)
       /\ Start(workers[joined + 1], IoError, TRUE)

SpecMain == InitMain /\ [][NextMain]_vars

(***************************************************************************)
(* C15: main tries every peer of the tracker's list exactly once and       *)
(* spawns exactly one worker for each peer that connects and handshakes    *)
(* and none for a peer that fails, for a list of any length: when the      *)
(* connect loop is over no peer is left untried, and the workers are the   *)
(* peers that connected, each once.                                        *)
(***************************************************************************)
C15_OneWorkerPerConnectedPeer ==
    /\ [](main_pc # "connect" => peer_queue = <<>>)
    /\ [](\A j, k \in 1..Len(workers) : workers[j] = workers[k] => j = k)
    /\ [](\A w \in DOMAIN pc : Spawned(w) <=> w \in Range(workers))
    /\ [][/\ Len(peer_queue') >= Len(peer_queue) - 1
          /\ Len(workers') <= Len(workers) + 1
          /\ Len(workers') > Len(workers) =>
                /\ Len(peer_queue') = Len(peer_queue) - 1
                /\ Last(workers') = Last(peer_queue)]_vars

(***************************************************************************)
(* The functions of the program applied on their own: `input` holds the    *)
(* arguments, `output` the result; the download engine stands still.       *)
(***************************************************************************)
program == <<torrent, block_size, piece_queue, done_pieces, done_mutex,
             file_mutex, file, file_pos, peer_queue, workers, joined,
             main_pc, pc, chocked, bitfield, work_piece, state, done_tmp,
             commit_log, unchoke_last, downloaded>>

\* the engine of an empty tracker list, with no connection
InitAlone == InitFor(PayloadLength, PieceLength, ModelBlockSize, 0, {})

(***************************************************************************)
(* message.rs: the wire format.  Bytes are 0..255; the u32 values of the   *)
(* model are below 2^31.                                                   *)
(***************************************************************************)
KeepAlive == [kind |-> "KeepAlive"]
Interested == [kind |-> "Interested"]
NotInterested == [kind |-> "NotInterested"]
Request(i, b, l) == [kind |-> "Request", index |-> i, begin |-> b, length |-> l]
Cancel == [kind |-> "Cancel"]

\* BigEndian::write_u32
MutWriteLittleEndian(n) ==
    <<n % 256, (n \div 256) % 256, (n \div 65536) % 256, n \div 16777216>>
write_u32(n) ==
    <<n \div 16777216, (n \div 65536) % 256, (n \div 256) % 256, n % 256>>

\* BigEndian::read_u32: the first four bytes of b (it panics on fewer)
read_u32(b) == ((b[1] * 256 + b[2]) * 256 + b[3]) * 256 + b[4]

\* &b[from..]
SliceFrom(b, from) == SubSeq(b, from + 1, Len(b))

\* Message::serialize
serialize(m) ==
    LET payload ==
            CASE m.kind = "KeepAlive" -> <<>>
              [] m.kind = "Choke" -> <<0>>
              [] m.kind = "Unchoke" -> <<1>>
              [] m.kind = "Interested" -> <<2>>
              [] m.kind = "NotInterested" -> <<3>>
              [] m.kind = "Have" -> <<4>> \o write_u32(m.index)
              [] m.kind = "Bitfield" -> <<5>> \o m.bitfield
              [] m.kind = "Request" ->
                    <<6>> \o write_u32(m.index) \o write_u32(m.begin)
                          \o write_u32(m.length)
              [] m.kind = "Piece" ->
                    <<7>> \o write_u32(m.index) \o write_u32(m.begin)
                          \o m.data
              [] m.kind = "Cancel" -> <<8>>
    IN write_u32(Len(payload)) \o payload

\* Message::new; Malformed stands for its panics (an unknown id, a slice or
\* a read_u32 past the end of the payload)
Message_new(id, payload) ==
    CASE id = 0 -> Choke
      [] id = 1 -> Unchoke
      [] id = 2 -> Interested
      [] id = 3 -> NotInterested
      [] id = 4 ->
            IF Len(payload) < 4 THEN Malformed ELSE Have(read_u32(payload))
      [] id = 5 -> Bitfield(payload)
      [] id = 6 ->
            IF Len(payload) < 12 THEN Malformed
            ELSE Request(read_u32(payload), read_u32(SliceFrom(payload, 4)),
                         read_u32(SliceFrom(payload, 8)))
      [] id = 7 ->
            IF Len(payload) < 8 THEN Malformed
            ELSE PieceMsg(read_u32(payload), read_u32(SliceFrom(payload, 4)),
                          SliceFrom(payload, 8))
      [] id = 8 -> Cancel
      [] OTHER -> Malformed

\* Connection::read on a stream that holds the bytes of frame: IoError when
\* read_exact finds fewer than four bytes; read_to_end takes what is there
read(frame) ==
    IF Len(frame) < 4 THEN IoError
    ELSE LET msg_len == read_u32(frame)
             msg == SubSeq(frame, 5, Min(4 + msg_len, Len(frame)))
         IN IF msg_len > 0
            THEN IF msg = <<>> THEN Malformed
                 ELSE Message_new(msg[1], SliceFrom(msg, 1))
            ELSE KeepAlive

\* the u32 values and the byte strings of the messages of the model
WireInts == {0, 1, 255, 256, 65535, 65536, 16777215, 16777216, 2147483647}
WireBytes == {<<>>, <<0>>, <<255>>, <<128, 1>>, <<0, 0, 0, 0, 7>>}
Messages ==
    {KeepAlive, Choke, Unchoke, Interested, NotInterested, Cancel}
    \cup {Have(i) : i \in WireInts}
    \cup {Bitfield(bf) : bf \in WireBytes}
    \cup {Request(i, b, l) : i \in {0, 256, 2147483647}, b \in {0, 16384},
                              l \in {1, 16384}}
    \cup {PieceMsg(i, b, d) : i \in {0, 65536}, b \in {0, 16384},
                               d \in WireBytes}

InitMessage ==
    /\ InitAlone
    /\ input \in {[fn |-> "serialize", message |-> m] : m \in Messages}
    /\ output = NoCall

\* connection.send(m): the frame written to the stream
Serialize ==
    /\ input.fn = "serialize"
    /\ output = NoCall
    /\ output' = [fn |-> "serialize", frame |-> serialize(input.message)]
    /\ UNCHANGED <<program, input>>

\* connection.read() at the other end of the stream
Read ==
    /\ output.fn = "serialize"
    /\ output' = [fn |-> "read", frame |-> output.frame,
                   message |-> read(output.frame)]
    /\ UNCHANGED <<program, input>>

NextMessage == Serialize \/ Read

SpecMessage == InitMessage /\ [][NextMessage]_vars

(***************************************************************************)
(* C16: for every message m, the frame of serialize(m) is a 4-byte         *)
(* big-endian length followed by that many bytes, the first of them the id *)
(* (KeepAlive is the bare length 0), and decoding the frame gives m again. *)
(***************************************************************************)
C16_MessageRoundTrip ==
    /\ output.fn \in {"serialize", "read"} =>
          /\ Len(output.frame) = 4 + read_u32(output.frame)
          /\ (input.message = KeepAlive) <=> (output.frame = <<0, 0, 0, 0>>)
          /\ input.message # KeepAlive => output.frame[5] \in 0..8
    /\ output.fn = "read" => output.message = input.message

\* a Piece message with a non-empty block was encoded and decoded
C16_Witness ==
    /\ output.fn = "read"
    /\ output.message = input.message
    /\ input.message.kind = "Piece"
    /\ input.message.index = 65536
    /\ Len(input.message.data) = 5

(***************************************************************************)
(* connection.rs: the handshake.                                           *)
(***************************************************************************)
\* Handshake::PROTOCOL_IDENTIFIER, "BitTorrent protocol" in ASCII
PROTOCOL_IDENTIFIER ==
    <<66, 105, 116, 84, 111, 114, 114, 101, 110, 116, 32, 112, 114, 111, 116,
      111, 99, 111, 108>>

\* Handshake::as_bytes
MutAsBytesPeerIdFirst(hs) ==
    <<Len(hs.pstr)>> \o hs.pstr \o Zeros(8) \o hs.peer_id \o hs.info_hash
as_bytes(hs) ==
    <<Len(hs.pstr)>> \o hs.pstr \o Zeros(8) \o hs.info_hash \o hs.peer_id

\* String::from_utf8: whether the bytes b, from position k on, are
\* well-formed UTF-8
Continuation(b, k) == k <= Len(b) /\ b[k] \in 128..191
RECURSIVE from_utf8_ok(_, _)
from_utf8_ok(b, k) ==
    IF k > Len(b) THEN TRUE
    ELSE CASE b[k] < 128 -> from_utf8_ok(b, k + 1)
           [] b[k] \in 194..223 ->
                Continuation(b, k + 1) /\ from_utf8_ok(b, k + 2)
           [] b[k] \in 224..239 ->
                /\ Continuation(b, k + 1)
                /\ b[k] = 224 => b[k + 1] >= 160
                /\ b[k] = 237 => b[k + 1] <= 159
                /\ Continuation(b, k + 2)
                /\ from_utf8_ok(b, k + 3)
           [] b[k] \in 240..244 ->
                /\ Continuation(b, k + 1)
                /\ b[k] = 240 => b[k + 1] >= 144
                /\ b[k] = 244 => b[k + 1] <= 143
                /\ Continuation(b, k + 2)
                /\ Continuation(b, k + 3)
                /\ from_utf8_ok(b, k + 4)
           [] OTHER -> FALSE

\* Handshake::from_bytes of the 68 bytes b: Err(FromUtf8Error) or the
\* Handshake
from_bytes(b) ==
    LET pstr_len == 19
        pstr == Slice(b, 1, pstr_len + 1)
    IN IF ~from_utf8_ok(pstr, 1) THEN [ok |-> FALSE]
       ELSE [ok |-> TRUE,
             pstr |-> pstr,
             info_hash |-> Slice(b, pstr_len + 1 + 8, pstr_len + 1 + 8 + 20),
             peer_id |-> SliceFrom(b, pstr_len + 1 + 8 + 20)]

\* Connection::receive_handshake on a stream that holds the bytes of
\* stream: read_exact of 68 bytes, then from_bytes
receive_handshake(stream) ==
    IF Len(stream) < 68 THEN [ok |-> FALSE]
    ELSE from_bytes(SubSeq(stream, 1, 68))

\* Connection::complete_handshake: whether it returns Ok(())
complete_handshake(info_hash, peer_id, send_ok, stream) ==
    LET hs == [pstr |-> PROTOCOL_IDENTIFIER, info_hash |-> info_hash,
               peer_id |-> peer_id]
        res_hs == receive_handshake(stream)
    IN /\ send_ok
       /\ res_hs.ok
       /\ hs.info_hash = res_hs.info_hash

\* the client's info-hash and peer id, and what a peer may answer
OurInfoHash == [k \in 1..20 |-> k]
OurPeerId == [k \in 1..20 |-> 100 + k]
ReplyLengthBytes == {19, 0, 255}
ReplyPstrs ==
    {PROTOCOL_IDENTIFIER,
     Zeros(19),
     [PROTOCOL_IDENTIFIER EXCEPT ![1] = 255],
     [PROTOCOL_IDENTIFIER EXCEPT ![1] = 195, ![2] = 169],
     [PROTOCOL_IDENTIFIER EXCEPT ![19] = 195]}
ReplyReserved == {Zeros(8), [k \in 1..8 |-> 255]}
ReplyInfoHashes ==
    {OurInfoHash, [OurInfoHash EXCEPT ![20] = 0], [OurInfoHash EXCEPT ![1] = 0]}
ReplyPeerIds == {OurPeerId, Zeros(20)}
Replies ==
    {<<l>> \o p \o r \o h \o i :
        l \in ReplyLengthBytes, p \in ReplyPstrs, r \in ReplyReserved,
        h \in ReplyInfoHashes, i \in ReplyPeerIds}
    \cup {<<>>, SubSeq(as_bytes([pstr |-> PROTOCOL_IDENTIFIER,
                                 info_hash |-> OurInfoHash,
                                 peer_id |-> OurPeerId]), 1, 67)}

InitHandshake ==
    /\ InitAlone
    /\ input \in {[fn |-> "complete_handshake", send_ok |-> ok, stream |-> b] :
                     ok \in BOOLEAN, b \in Replies}
    /\ output = NoCall

CompleteHandshake ==
    /\ input.fn = "complete_handshake"
    /\ output = NoCall
    /\ output' = [fn |-> "complete_handshake",
                   ok |-> complete_handshake(OurInfoHash, OurPeerId,
                                             input.send_ok, input.stream)]
    /\ UNCHANGED <<program, input>>

NextHandshake == CompleteHandshake

SpecHandshake == InitHandshake /\ [][NextHandshake]_vars

(***************************************************************************)
(* C17: the handshake succeeds exactly when the write went through, the    *)
(* peer answered 68 bytes and bytes 28..48 of the answer are the client's  *)
(* info-hash, whatever the other bytes of the answer are.                  *)
(***************************************************************************)
C17_HandshakeIffInfoHash ==
    output.fn = "complete_handshake" =>
        (output.ok <=>
            /\ input.send_ok
            /\ Len(input.stream) >= 68
            /\ Slice(input.stream, 28, 48) = OurInfoHash)

(***************************************************************************)
(* connection.rs: the bitfield accessors on their own.                     *)
(***************************************************************************)
BitfieldBytes == {0, 1, 128, 85, 170, 255}
BitfieldValues ==
    {<<a>> : a \in BitfieldBytes}
    \cup {<<a, b>> : a \in BitfieldBytes, b \in BitfieldBytes}

InitBitfield ==
    /\ InitAlone
    /\ input \in {[fn |-> "set_piece", bitfield |-> b, index |-> i] :
                     <<b, i>> \in {<<b, i>> \in BitfieldValues \X (0..15) :
                                     i < 8 * Len(b)}}
    /\ output = NoCall

\* conn.set_piece(&index)
SetPiece ==
    /\ input.fn = "set_piece"
    /\ output = NoCall
    /\ output' = [fn |-> "set_piece",
                   bitfield |-> set_piece(input.bitfield, input.index)]
    /\ UNCHANGED <<program, input>>

NextBitfield == SetPiece

SpecBitfield == InitBitfield /\ [][NextBitfield]_vars

\* bit (7 - i mod 8) of byte (i div 8) of b is 1
BitOfPiece(b, i) ==
    (b[(i \div 8) + 1] \div <<128, 64, 32, 16, 8, 4, 2, 1>>[(i % 8) + 1]) % 2 = 1

(***************************************************************************)
(* C18: for a bitfield b and an index i < 8*|b|, has_piece(i) is true      *)
(* exactly when bit (7 - i mod 8) of byte (i div 8) is 1; after            *)
(* set_piece(i) has_piece(i) is true and every other bit is as before.     *)
(***************************************************************************)
C18_BitfieldAccessors ==
    /\ input.fn = "set_piece" =>
          \A j \in 0..(8 * Len(input.bitfield) - 1) :
              has_piece(input.bitfield, j) <=> BitOfPiece(input.bitfield, j)
    /\ output.fn = "set_piece" =>
          /\ Len(output.bitfield) = Len(input.bitfield)
          /\ has_piece(output.bitfield, input.index)
          /\ \A j \in 0..(8 * Len(input.bitfield) - 1) :
                /\ has_piece(output.bitfield, j) <=> BitOfPiece(output.bitfield, j)
                /\ j # input.index =>
                      (BitOfPiece(output.bitfield, j)
                         <=> BitOfPiece(input.bitfield, j))

\* a bit of the second byte that was 0 has been set
C18_Witness ==
    /\ output.fn = "set_piece"
    /\ input.index = 13
    /\ input.bitfield = <<170, 170>>
    /\ output.bitfield = <<170, 174>>

(***************************************************************************)
(* torrent.rs: the piece partitioning on its own.  Lengths are counted in  *)
(* units of 4 bytes: 268435456 is a piece length of 1 GiB, 1342177280 a    *)
(* payload of 5 GiB.  The hash of piece i stands as i.                     *)
(***************************************************************************)
PartitionSizes ==
    ((1..12) \X (1..5))
    \cup ({805306368, 1073741823, 1342177280} \X {268435456})

InitPieces ==
    /\ InitAlone
    /\ input \in {[fn |-> "create_piece_queue",
                    torrent |-> [length |-> L, piece_length |-> P,
                                 pieces |-> [i \in 1..CeilDiv(L, P) |-> i]]] :
                     <<L, P>> \in PartitionSizes}
    /\ output = NoCall

\* TorrentState::new: torrent.create_piece_queue()
CreatePieceQueue ==
    /\ input.fn = "create_piece_queue"
    /\ output = NoCall
    /\ output' = [fn |-> "create_piece_queue",
                   queue |-> create_piece_queue(input.torrent)]
    /\ UNCHANGED <<program, input>>

NextPieces == CreatePieceQueue

SpecPieces == InitPieces /\ [][NextPieces]_vars

(***************************************************************************)
(* C19: for a payload of L >= 1 bytes and a piece length P >= 1 with       *)
(* N = ceil(L/P) hashes, the queue holds the pieces 0..N-1 in order, piece *)
(* i begins at i*P, every piece but the last has length P and the last     *)
(* L - (N-1)*P, so that the pieces cover [0, L) once and without overlap.  *)
(***************************************************************************)
C19_PiecesPartition ==
    output.fn = "create_piece_queue" =>
        LET L == input.torrent.length
            P == input.torrent.piece_length
            N == CeilDiv(L, P)
            q == output.queue
        IN /\ Len(q) = N
           /\ \A k \in 1..N :
                 /\ q[k].index = k - 1
                 /\ q[k].begin = (k - 1) * P
                 /\ q[k].length = IF k < N THEN P ELSE L - (N - 1) * P
                 /\ q[k].length >= 1
                 /\ q[k].end = q[k].begin + q[k].length
                 /\ k < N => q[k].end = q[k + 1].begin
           /\ q[1].begin = 0
           /\ q[N].end = L

(***************************************************************************)
(* torrent.rs: the block partitioning on its own, with the program's block *)
(* size, for piece lengths around the multiples of MAX_BLOCK_SIZE and      *)
(* around 2^24, where f32 stops holding every integer.                     *)
(***************************************************************************)
BlockPieceLengths ==
    {l \in {k * MAX_BLOCK_SIZE + d : k \in 0..16, d \in {-1, 0, 1}} : l >= 1}
    \cup {16777215, 16777216, 16777217}

InitBlocks ==
    /\ InitAlone
    /\ input \in {[fn |-> "create_block_queue",
                    piece |-> Piece_new(0, 0, l, 0)] : l \in BlockPieceLengths}
    /\ output = NoCall

\* PieceState::new: piece.create_block_queue()
CreateBlockQueue ==
    /\ input.fn = "create_block_queue"
    /\ output = NoCall
    /\ output' = [fn |-> "create_block_queue",
                   queue |-> create_block_queue(input.piece, MAX_BLOCK_SIZE)]
    /\ UNCHANGED <<program, input>>

NextBlocks == CreateBlockQueue

SpecBlocks == InitBlocks /\ [][NextBlocks]_vars

(***************************************************************************)
(* C20: for a piece of length l >= 1 the block queue holds ceil(l / 16384) *)
(* blocks, block k begins at k*16384, every block has length 16384 but the *)
(* last, whose length is l mod 16384 when that is not zero, so that the    *)
(* blocks cover [0, l) once and without overlap.                           *)
(***************************************************************************)
C20_BlocksPartition ==
    output.fn = "create_block_queue" =>
        LET l == input.piece.length
            n == CeilDiv(l, 16384)
            q == output.queue
        IN /\ Len(q) = n
           /\ \A k \in 1..Len(q) :
                 /\ q[k].index = k - 1
                 /\ q[k].begin = (k - 1) * 16384
                 /\ q[k].length =
                       IF k = Len(q) /\ l % 16384 # 0 THEN l % 16384 ELSE 16384
                 /\ q[k].end = q[k].begin + q[k].length
           /\ q[Len(q)].end = l

(***************************************************************************)
(* connection.rs: the bytes of a handshake on their own: Handshake::new    *)
(* and as_bytes, then from_bytes at the other end.                         *)
(***************************************************************************)
\* Handshake::new
Handshake_new(info_hash, peer_id) ==
    [pstr |-> PROTOCOL_IDENTIFIER, info_hash |-> info_hash,
     peer_id |-> peer_id]

\* the 20-byte values of the info-hash and of the peer id
TwentyBytes ==
    {Zeros(20), [k \in 1..20 |-> 255], OurInfoHash, OurPeerId,
     [k \in 1..20 |-> 19], [k \in 1..20 |-> 235 + k],
     [k \in 1..20 |-> IF k = 1 THEN 195 ELSE 0],
     [k \in 1..20 |-> IF k = 20 THEN 128 ELSE 66],
     PROTOCOL_IDENTIFIER \o <<0>>, <<19>> \o PROTOCOL_IDENTIFIER,
     [k \in 1..20 |-> (13 * k) % 256]}

InitHandshakeBytes ==
    /\ InitAlone
    /\ input \in {[fn |-> "as_bytes", info_hash |-> h, peer_id |-> i] :
                     h \in TwentyBytes, i \in TwentyBytes}
    /\ output = NoCall

\* Handshake::new(info_hash, peer_id).as_bytes()
AsBytes ==
    /\ input.fn = "as_bytes"
    /\ output = NoCall
    /\ output' = [fn |-> "as_bytes",
                   bytes |-> as_bytes(Handshake_new(input.info_hash,
                                                    input.peer_id))]
    /\ UNCHANGED <<program, input>>

\* Handshake::from_bytes of the bytes written
FromBytes ==
    /\ output.fn = "as_bytes"
    /\ output' = [fn |-> "from_bytes", bytes |-> output.bytes,
                   handshake |-> from_bytes(output.bytes)]
    /\ UNCHANGED <<program, input>>

NextHandshakeBytes == AsBytes \/ FromBytes

SpecHandshakeBytes == InitHandshakeBytes /\ [][NextHandshakeBytes]_vars

(***************************************************************************)
(* C21: for a 20-byte info-hash and a 20-byte peer id the serialised       *)
(* handshake is 68 bytes: byte 0 is 19, bytes 1..20 the ASCII text         *)
(* "BitTorrent protocol", bytes 20..28 zero, bytes 28..48 the info-hash    *)
(* and bytes 48..68 the peer id; parsing the 68 bytes gives the same       *)
(* info-hash and peer id.                                                  *)
(***************************************************************************)
C21_HandshakeBytes ==
    /\ output.fn \in {"as_bytes", "from_bytes"} =>
          /\ Len(output.bytes) = 68
          /\ output.bytes[1] = 19
          /\ Slice(output.bytes, 1, 20) = PROTOCOL_IDENTIFIER
          /\ Slice(output.bytes, 20, 28) = <<0, 0, 0, 0, 0, 0, 0, 0>>
          /\ Slice(output.bytes, 28, 48) = input.info_hash
          /\ Slice(output.bytes, 48, 68) = input.peer_id
    /\ output.fn = "from_bytes" =>
          /\ output.handshake.ok
          /\ output.handshake.info_hash = input.info_hash
          /\ output.handshake.peer_id = input.peer_id

\* a handshake whose info-hash and peer id differ and hold bytes that are
\* not ASCII was written and parsed
C21_Witness ==
    /\ output.fn = "from_bytes"
    /\ output.handshake.ok
    /\ input.info_hash = [k \in 1..20 |-> 255]
    /\ input.peer_id = [k \in 1..20 |-> 235 + k]
    /\ output.handshake.info_hash # output.handshake.peer_id

(***************************************************************************)
(* download_worker.rs: the PieceState of try_download_piece on its own, on *)
(* an unchoked connection whose sends succeed: PieceState::new, then       *)
(* send_request while there is room, then read_message and                 *)
(* store_in_buffer, the message read being kept beside the state before    *)
(* and after it.  Blocks are of PipeBlockSize bytes.  A piece of           *)
(* LongPieceBlocks blocks is served by a peer that answers the requests in *)
(* their order with blocks of the right length; a piece of                 *)
(* ShortPieceBlocks blocks by a peer that answers in any order with data   *)
(* of any length.  Both peers also send Piece messages nobody asked for.   *)
(***************************************************************************)
LongPieceBlocks == 256
ShortPieceBlocks == 3

InitStore ==
    /\ InitFor(PayloadLength, PieceLength, PipeBlockSize, 0, {})
    /\ input \in {[fn |-> "try_download_piece",
                    piece |-> Piece_new(1, n * PipeBlockSize,
                                        n * PipeBlockSize, 0),
                    in_order |-> n = LongPieceBlocks] :
                     n \in {LongPieceBlocks, ShortPieceBlocks}}
    /\ output = NoCall

\* the bytes a peer sends for a block: of the length asked, one byte short
\* or one byte long
BlockData(b, any_length) ==
    {[k \in 1..b.length |-> 1]}
    \cup (IF any_length
          THEN {[k \in 1..(b.length - 1) |-> 1], [k \in 1..(b.length + 1) |-> 1]}
          ELSE {})

\* what read_message may read for the PieceState st: a requested block (the
\* first requested when in_order), a block of another piece, the block
\* requested first (a second delivery once it has arrived), a block past
\* the piece, or a message that is no Piece
StoreReads(st, in_order) ==
    LET served == IF in_order THEN {st.requested_blocks[1]}
                  ELSE Range(st.requested_blocks)
    IN UNION {{PieceMsg(i, b.begin, d) :
                  i \in {st.index, st.index - 1}, d \in BlockData(b, ~in_order)} :
                 b \in served}
       \cup {PieceMsg(st.index, input.piece.length - PipeBlockSize, <<1>>),
             PieceMsg(st.index, input.piece.length, <<1>>),
             Other}

\* PieceState::new(piece)
NewPieceState ==
    /\ input.fn = "try_download_piece"
    /\ output = NoCall
    /\ output' = [fn |-> "PieceState::new", state |-> PieceState_new(input.piece)]
    /\ UNCHANGED <<program, input>>

\* one turn of the inner while of try_download_piece
SendRequestAlone ==
    /\ input.fn = "try_download_piece"
    /\ output # NoCall
    /\ output.state # NoState
    /\ room_for_request(output.state)
    /\ output' = [fn |-> "send_request", state |-> send_request(output.state)]
    /\ UNCHANGED <<program, input>>

\* state.read_message and store_in_buffer, reading r; overflow_checks: the
\* build panics when blocks_done += 1 overflows (a debug build) instead of
\* wrapping.  NoState afterwards: the thread has panicked.
ReadMessageAlone(overflow_checks) ==
    /\ input.fn = "try_download_piece"
    /\ output # NoCall
    /\ output.state # NoState
    /\ output.state.requested_blocks # <<>>
    /\ ~room_for_request(output.state)
    /\ \E r \in StoreReads(output.state, input.in_order) :
          LET st == output.state
              k == block_index(st, r)
          IN output' =
                [fn |-> "read_message", before |-> st, message |-> r,
                 state |->
                    IF k = 0 THEN st
                    ELSE IF overflow_checks /\ st.blocks_done + 1 >= U8
                    THEN NoState
                    ELSE IF splice_panics(st.buf, st.requested_blocks[k])
                    THEN NoState
                    ELSE received(st, k, r.data)]
    /\ UNCHANGED <<program, input>>

NextStore ==
    \/ NewPieceState
    \/ SendRequestAlone
    \/ \E overflow_checks \in BOOLEAN : ReadMessageAlone(overflow_checks)

SpecStore == InitStore /\ [][NextStore]_vars

\* the requested block of st a Piece message r is for, as a set (empty:
\* another piece index, or no requested block with this begin)
Matching(st, r) ==
    {k \in 1..Len(st.requested_blocks) :
        r.index = st.index /\ st.requested_blocks[k].begin = r.begin}

(***************************************************************************)
(* C22: in try_download_piece a Piece message of another piece index, or   *)
(* whose begin is that of no requested block (a second delivery of a block *)
(* included), leaves the buffer, the pending queue, the in-flight set and  *)
(* the completed count as they were; a Piece message that matches removes  *)
(* that one block from the in-flight set, puts its data in the buffer from *)
(* begin on, and adds 1 to the completed count.                            *)
(***************************************************************************)
C22_PieceMessageEffect ==
    (output.fn = "read_message" /\ output.message.kind = "Piece") =>
        LET st == output.before
            r == output.message
            after == output.state
        IN IF Matching(st, r) = {}
           THEN after = st
           ELSE /\ after # NoState
                /\ after.block_queue = st.block_queue
                /\ \E k \in Matching(st, r) :
                      after.requested_blocks = RemoveAt(st.requested_blocks, k)
                /\ Slice(after.buf, r.begin, r.begin + Len(r.data)) = r.data
                /\ after.blocks_done = st.blocks_done + 1

(***************************************************************************)
(* The specification of a choke in the middle of a piece: the pipelining   *)
(* configuration (one piece of more blocks than MAX_CONCURRENT_REQUESTS)   *)
(* with a peer that answers as the protocol asks and chokes the worker     *)
(* once the pipeline is full and before it has delivered a block, then     *)
(* delivers the blocks in flight, in any order, and then unchokes; no I/O  *)
(* error, and every thread scheduled again and again.                      *)
(***************************************************************************)
ChokeReads(w) ==
    IF state[w] = NoState THEN CoopReads(w)
    ELSE {Bitfield(bf) : bf \in Bitfields}
         \cup {PieceMsg(state[w].index, b.begin, TrueData(state[w].index, b.begin)) :
                  b \in Range(state[w].requested_blocks)}
         \cup (IF /\ ~chocked[w]
                  /\ state[w].blocks_done = 0
                  /\ Len(state[w].requested_blocks) = MAX_CONCURRENT_REQUESTS
               THEN {Choke} ELSE {})
         \cup (IF chocked[w] /\ state[w].requested_blocks # <<>>
               THEN {} ELSE {Unchoke})

WorkerChoke(w) ==
    \/ \E r \in ChokeReads(w) : Start(w, r, TRUE)
    \/ CheckDone(w)
    \/ TakePiece(w)
    \/ ReturnPiece(w)
    \/ SendRequest(w, TRUE)
    \/ \E r \in ChokeReads(w) : ReadMessage(w, r)
    \/ CheckPiece(w)
    \/ LockDone(w)
    \/ LockFile(w)
    \/ Seek(w, TRUE)
    \/ Write(w, Len(state[w].buf))
    \/ LoadDone(w)
    \/ StoreDone(w)

NextChoke ==
    \/ \E ok \in BOOLEAN : MainConnect(ok)
    \/ MainConnectDone
    \/ MainJoin
    \/ MainExit
    \/ \E w \in Peers : \E r \in ChokeReads(w) : Start(w, r, TRUE)
    \/ \E w \in Peers : CheckDone(w)
    \/ \E w \in Peers : TakePiece(w)
    \/ \E w \in Peers : ReturnPiece(w)
    \/ \E w \in Peers : SendRequest(w, TRUE)
    \/ \E w \in Peers : \E r \in ChokeReads(w) : ReadMessage(w, r)
    \/ \E w \in Peers : CheckPiece(w)
    \/ \E w \in Peers : LockDone(w)
    \/ \E w \in Peers : LockFile(w)
    \/ \E w \in Peers : Seek(w, TRUE)
    \/ \E w \in Peers : Write(w, Len(state[w].buf))
    \/ \E w \in Peers : LoadDone(w)
    \/ \E w \in Peers : StoreDone(w)

FairChoke ==
    /\ InitPipe
    /\ [][NextChoke]_vars
    /\ WF_vars(MainStep)
    /\ \A w \in Peers : WF_vars(WorkerChoke(w))

\* the worker is in try_download_piece, choked, with blocks in flight
ChokedInFlight(w) ==
    /\ pc[w] = "tdp_loop"
    /\ chocked[w]
    /\ state[w].requested_blocks # <<>>

(***************************************************************************)
(* C23: a Choke that arrives in try_download_piece while blocks are in     *)
(* flight leaves the in-flight set as it is; no Request is sent while the  *)
(* worker is choked; a block in flight can still arrive and is accepted    *)
(* (it leaves the in-flight set and counts as completed); and, the peer    *)
(* delivering the blocks in flight and then an Unchoke, the pending blocks *)
(* are requested after the Unchoke and try_download_piece succeeds.        *)
(***************************************************************************)
C23_ChokeMidPiece ==
    /\ [][\A w \in Peers :
            (pc[w] = "tdp_loop" /\ ~chocked[w] /\ chocked'[w])
            => /\ pc'[w] = "tdp_loop"
               /\ state'[w] = state[w]]_vars
    /\ [][\A w \in Peers :
            (pc[w] = "tdp_loop" /\ chocked[w])
            => /\ state'[w] # NoState
               /\ state'[w].block_queue = state[w].block_queue
               /\ state'[w].requested_blocks # state[w].requested_blocks
                     => /\ Len(state'[w].requested_blocks)
                              = Len(state[w].requested_blocks) - 1
                        /\ state'[w].blocks_done = state[w].blocks_done + 1]_vars
    /\ [](\A w \in Peers :
            ChokedInFlight(w) =>
               \A b \in Range(state[w].requested_blocks) :
                  ENABLED ReadMessage(w, PieceMsg(state[w].index, b.begin,
                                        TrueData(state[w].index, b.begin))))
    /\ \A w \in Peers :
          ChokedInFlight(w)
          ~> (pc[w] = "tdp_loop" /\ ~chocked[w] /\ state[w].block_queue = <<>>)
    /\ \A w \in Peers : ChokedInFlight(w) ~> (pc[w] = "commit_lock_done")

\* a choked worker has accepted three of its five blocks in flight and has
\* a block left to request
C23_Witness ==
    \E w \in Peers :
        /\ ChokedInFlight(w)
        /\ state[w].blocks_done = 3
        /\ Len(state[w].requested_blocks) = 2
        /\ state[w].block_queue # <<>>

\* the bitfield of worker w holds the bit of piece i, and the bit is 1 / 0
BitIsSet(w, i) ==
    /\ ~bit_access_panics(bitfield[w], i)
    /\ BitOfPiece(bitfield[w], i)
BitIsClear(w, i) ==
    /\ ~bit_access_panics(bitfield[w], i)
    /\ ~BitOfPiece(bitfield[w], i)

(***************************************************************************)
(* C24: a worker sends Requests only for a piece whose bit is set in the   *)
(* bitfield of its connection when the piece is taken: it is in            *)
(* try_download_piece only with such a piece.  A taken piece whose bit is  *)
(* clear goes back to the work queue: no PieceState is made and no Request *)
(* sent for it, done and the file stay as they are, and the worker is at   *)
(* the head of its loop again, not terminated.                             *)
(***************************************************************************)
C24_RequestsOnlyAdvertisedPieces ==
    /\ [](\A w \in Peers :
            pc[w] = "tdp_loop" => BitIsSet(w, work_piece[w].index))
    /\ [](\A w \in Peers :
            pc[w] = "dl_requeue"
            => /\ BitIsClear(w, work_piece[w].index)
               /\ state[w] = NoState)
    /\ [][\A w \in Peers :
            (/\ pc[w] = "dl_take"
             /\ pc'[w] # pc[w]
             /\ piece_queue # <<>>)
            => /\ BitIsSet(w, Last(piece_queue).index)
                    => (pc'[w] = "tdp_loop" /\ work_piece'[w] = Last(piece_queue))
               /\ BitIsClear(w, Last(piece_queue).index)
                    => /\ pc'[w] = "dl_requeue"
                       /\ work_piece'[w] = Last(piece_queue)
                       /\ state'[w] = NoState
                       /\ done_pieces' = done_pieces
                       /\ file' = file]_vars
    /\ [][\A w \in Peers :
            (/\ pc[w] = "tdp_loop"
             /\ state'[w] # NoState
             /\ Len(state'[w].block_queue) < Len(state[w].block_queue))
            => BitIsSet(w, state[w].index)]_vars
    /\ [][\A w \in Peers :
            (pc[w] = "dl_requeue" /\ pc'[w] # pc[w])
            => /\ pc'[w] = "dl_check"
               /\ Last(piece_queue') = work_piece[w]
               /\ Front(piece_queue') = piece_queue
               /\ state'[w] = NoState
               /\ done_pieces' = done_pieces
               /\ file' = file]_vars

\* one worker is about to return a piece its peer lacks while the other has
\* requested the block of a piece its peer has
C24_Witness ==
    \E w1, w2 \in Peers :
        /\ pc[w1] = "dl_requeue"
        /\ BitIsClear(w1, work_piece[w1].index)
        /\ pc[w2] = "tdp_loop"
        /\ state[w2].requested_blocks # <<>>
        /\ BitIsSet(w2, work_piece[w2].index)

(***************************************************************************)
(* C25: a worker whose peer lacks the queued pieces takes and returns them *)
(* in turn: a piece it returns goes behind the pieces that are in the      *)
(* queue, so that it is not the piece the next take gives, and the worker  *)
(* gets to every other piece j that was in the queue (it takes j, or j has *)
(* left the queue, or the worker has left its loop) before it has the      *)
(* returned piece again.                                                   *)
(***************************************************************************)
C25_ReturnedPieceTakenLast ==
    /\ [][\A w \in Peers :
            (/\ pc[w] = "dl_requeue"
             /\ pc'[w] # pc[w]
             /\ piece_queue # <<>>)
            => Last(piece_queue') # work_piece[w]]_vars
    /\ \A w \in Peers :
          \A i, j \in 0..(CeilDiv(PayloadLength, PieceLength) - 1) :
             (/\ i # j
              /\ pc[w] = "dl_requeue"
              /\ work_piece[w].index = i
              /\ InQueue(j))
             ~> (\/ work_piece[w].index = j
                 \/ ~InQueue(j)
                 \/ ~InLoop(w))

(***************************************************************************)
(* download_worker.rs: the bootstrap phase of a worker on its own: the     *)
(* connection as Connection::new makes it, then the turns of the loop of   *)
(* start(), each reading one message; the message read and what the turn   *)
(* sent are kept beside the connection before and after it.  After the     *)
(* turn that reads Unchoke the worker is in its download phase, where      *)
(* read_message handles a Have.                                            *)
(***************************************************************************)
\* start(): what the turn that reads r writes to the stream, `sends` of the
\* sends of the Bitfield arm going through before one fails
MutInterestedFirst(r, sends) ==
    IF r.kind = "Bitfield" THEN SubSeq(<<Interested, Unchoke>>, 1, sends)
    ELSE <<>>
start_sends(r, sends) ==
    IF r.kind = "Bitfield" THEN SubSeq(<<Unchoke, Interested>>, 1, sends)
    ELSE <<>>

\* the indices of the Have messages of this specification (16 is past a
\* bitfield of two bytes)
HaveIndices == 0..16

\* what conn.read() may give in start()
StartReads ==
    {IoError, Malformed, KeepAlive, Choke, Unchoke, Interested, NotInterested,
     Cancel, Request(0, 0, 1), PieceMsg(0, 0, <<1>>)}
    \cup {Have(i) : i \in HaveIndices}
    \cup {Bitfield(bf) : bf \in BitfieldValues \cup {<<>>}}

InitStart ==
    /\ InitAlone
    /\ input = [fn |-> "start"]
    /\ output = NoCall

\* Connection::new: chocked: true, bitfield: None
ConnectionNew ==
    /\ input.fn = "start"
    /\ output = NoCall
    /\ output' = [fn |-> "Connection::new", pc |-> "start",
                   conn |-> [chocked |-> TRUE, bitfield |-> NoBitfield]]
    /\ UNCHANGED <<program, input>>

\* start(): one turn of `while self.conn.chocked`
StartTurn ==
    /\ input.fn = "start"
    /\ output # NoCall
    /\ output.pc = "start"
    /\ \E r \in StartReads, sends \in 0..2 :
          LET turn == start_turn(output.conn, r, sends = 2)
          IN output' = [fn |-> "start", before |-> output.conn, message |-> r,
                         sent |-> start_sends(r, sends), pc |-> turn.pc,
                         conn |-> [chocked |-> turn.chocked,
                                   bitfield |-> turn.bitfield]]
    /\ UNCHANGED <<program, input>>

\* read_message in the download phase, reading Have(i): conn.set_piece.
\* try_download_piece is reached past has_piece only, with a bitfield.
ReadHave ==
    /\ input.fn = "start"
    /\ output # NoCall
    /\ output.fn = "start"
    /\ output.pc = "dl_check"
    /\ output.conn.bitfield # NoBitfield
    /\ \E i \in HaveIndices :
          output' = [fn |-> "read_message", before |-> output.conn,
                      message |-> Have(i), sent |-> <<>>,
                      pc |-> IF bit_access_panics(output.conn.bitfield, i)
                             THEN "panic_bitfield" ELSE "tdp_loop",
                      conn |-> IF bit_access_panics(output.conn.bitfield, i)
                               THEN output.conn
                               ELSE [output.conn EXCEPT
                                        !.bitfield = set_piece(@, i)]]
    /\ UNCHANGED <<program, input>>

NextStart == ConnectionNew \/ StartTurn \/ ReadHave

SpecStart == InitStart /\ [][NextStart]_vars

(***************************************************************************)
(* C26: in the bootstrap phase a turn that reads Bitfield stores it as the *)
(* bitfield of the connection and sends Unchoke and then Interested, and   *)
(* nothing else (a send that fails ends the thread); no other turn sends   *)
(* anything, so no Request is sent; the worker stays choked and in the     *)
(* bootstrap phase until it reads Unchoke, and the turn that reads Unchoke *)
(* clears chocked and enters the download phase.                           *)
(***************************************************************************)
C26_Bootstrap ==
    /\ output.fn = "Connection::new" =>
          (output.conn.chocked /\ output.pc = "start")
    /\ output.fn = "start" =>
          /\ output.message.kind = "Bitfield" =>
                /\ output.conn.bitfield = output.message.bitfield
                /\ \/ output.pc = "start" /\ output.sent = <<Unchoke, Interested>>
                   \/ output.pc = "panic_send" /\ output.sent \in {<<>>, <<Unchoke>>}
          /\ output.message.kind # "Bitfield" => output.sent = <<>>
          /\ \A k \in 1..Len(output.sent) : output.sent[k].kind # "Request"
          /\ output.before.chocked
          /\ (output.pc = "dl_check") <=> (output.message.kind = "Unchoke")
          /\ output.message.kind = "Unchoke" => ~output.conn.chocked
          /\ output.message.kind # "Unchoke" => output.conn.chocked

\* a worker that has stored a bitfield and sent Unchoke and Interested reads
\* Unchoke and enters the download phase
C26_Witness ==
    /\ output.fn = "start"
    /\ output.message = Unchoke
    /\ output.before.bitfield = <<170, 170>>
    /\ output.pc = "dl_check"
    /\ ~output.conn.chocked

(***************************************************************************)
(* C27: a Have(i) read in the bootstrap phase sets bit i of the bitfield   *)
(* of the connection, a zeroed bitfield being allocated first when there   *)
(* is none, so that has_piece(i) is true afterwards; a Have(i) read in     *)
(* try_download_piece sets bit i too.  (For indices the bitfield holds,    *)
(* when there is one.)                                                     *)
(***************************************************************************)
C27_HaveSetsBit ==
    (/\ output.fn \in {"start", "read_message"}
     /\ output.message.kind = "Have"
     /\ \/ output.before.bitfield = NoBitfield
        \/ output.message.index < 8 * Len(output.before.bitfield))
    => /\ ~bit_access_panics(output.conn.bitfield, output.message.index)
       /\ has_piece(output.conn.bitfield, output.message.index)
       /\ BitOfPiece(output.conn.bitfield, output.message.index)

\* the positions of a commit at which the worker holds the lock of
\* done_pieces
HoldsDonePcs == {"commit_lock_file", "commit_seek", "commit_write",
                 "commit_load", "commit_store"}

(***************************************************************************)
(* C28: when the seek or the write of a commit fails, the committing       *)
(* worker ends without incrementing done, and the download as a whole is   *)
(* over, because the worker held both locks: both are poisoned for good,   *)
(* done stays below N and the file as it is, no worker is inside a commit  *)
(* any more, and every other worker ends at its next access to the done    *)
(* counter (is_done() or the lock of the commit).                          *)
(***************************************************************************)
C28_CommitFailureIsFatal ==
    /\ [][\A w \in Peers :
            (pc[w] \in {"commit_seek", "commit_write"} /\ pc'[w] \notin CommitPcs)
            => /\ pc'[w] = "panic_file"
               /\ done_mutex.holder = w /\ file_mutex.holder = w
               /\ done_pieces' = done_pieces
               /\ done_mutex'.poisoned /\ file_mutex'.poisoned]_vars
    /\ [][(done_mutex.poisoned \/ file_mutex.poisoned)
            => /\ done_mutex'.poisoned /\ file_mutex'.poisoned
               /\ done_pieces' = done_pieces
               /\ file' = file]_vars
    /\ []((done_mutex.poisoned \/ file_mutex.poisoned)
            => /\ done_mutex.poisoned /\ file_mutex.poisoned
               /\ done_pieces < NumPieces
               /\ \A w \in Peers : pc[w] \notin HoldsDonePcs)
    /\ [][\A w \in Peers :
            (/\ done_mutex.poisoned
             /\ pc[w] \in {"dl_check", "commit_lock_done"}
             /\ pc'[w] # pc[w])
            => pc'[w] = "panic_poisoned"]_vars

\* the write of one worker has failed and the other worker has ended at its
\* next access to the done counter
C28_Witness ==
    \E w1, w2 \in Peers :
        /\ pc[w1] = "panic_file"
        /\ pc[w2] = "panic_poisoned"
        /\ done_mutex.poisoned

(***************************************************************************)
(* C29: for every piece index i the begin offset kept in the piece, which  *)
(* PieceState::new copies and copy_to_file seeks to, is i*P exactly, and   *)
(* begin + length is the end of the piece, also when i*P or L is 2^32 or   *)
(* more: the 32-bit fields do not wrap, so a later piece begins where the  *)
(* earlier ones have ended and is never written over one of them.          *)
(***************************************************************************)
C29_OffsetsDoNotWrap ==
    output.fn = "create_piece_queue" =>
        LET P == input.torrent.piece_length
            q == output.queue
        IN \A k \in 1..Len(q) :
              /\ seek_offset(q[k]) = q[k].index * P
              /\ q[k].begin + q[k].length = q[k].end
              /\ \A j \in 1..(k - 1) :
                    /\ seek_offset(q[j]) < seek_offset(q[k])
                    /\ q[j].end <= seek_offset(q[k])

\* the positions of a commit at which the worker holds the lock of file
HoldsFilePcs == {"commit_seek", "commit_write", "commit_load", "commit_store"}
\* the positions at which the worker takes the lock of piece_queue (and
\* gives it back in the same step)
QueuePcs == {"dl_take", "dl_requeue", "dl_fail"}
\* the positions at which the worker waits for the lock of done_pieces
WaitsDonePcs == {"dl_check", "commit_lock_done"}

\* a step of the worker that holds the lock of done_pieces
CommitStep(w) ==
    \/ LockFile(w)
    \/ \E ok \in BOOLEAN : Seek(w, ok)
    \/ \E n \in 0..Len(file) : Write(w, n)
    \/ LoadDone(w)
    \/ StoreDone(w)

(***************************************************************************)
(* C30: no live worker is blocked for ever on a lock of the TorrentState.  *)
(* A worker holds the lock of done_pieces exactly from the first lock of   *)
(* the commit to its end, and the lock of the file exactly from the second *)
(* lock on, so the file lock is only held with, and taken after, the done  *)
(* lock; where it takes the queue lock or waits for the done lock it holds *)
(* no lock.  So the worker that holds the done lock never waits: the file  *)
(* lock is free when it asks for it, and it always has a step to take,     *)
(* which leads to the release of both locks; no cycle of waits can form.   *)
(***************************************************************************)
C30_NoLockCycle ==
    /\ [](\A w \in Peers :
            /\ (done_mutex.holder = w) <=> (pc[w] \in HoldsDonePcs)
            /\ (file_mutex.holder = w) <=> (pc[w] \in HoldsFilePcs)
            /\ pc[w] \in QueuePcs \cup WaitsDonePcs
                  => (done_mutex.holder # w /\ file_mutex.holder # w))
    /\ [](file_mutex.holder # NoHolder => file_mutex.holder = done_mutex.holder)
    /\ [](\A w \in Peers :
            /\ pc[w] = "commit_lock_file" => ENABLED LockFile(w)
            /\ pc[w] \in HoldsDonePcs => ENABLED CommitStep(w)
            /\ pc[w] = "dl_take" => ENABLED TakePiece(w)
            /\ pc[w] = "dl_requeue" => ENABLED ReturnPiece(w)
            /\ pc[w] = "dl_fail" => ENABLED FailPiece(w))
    /\ [](\A w \in Peers :
            (pc[w] \in WaitsDonePcs /\ ~lock_free(done_mutex))
            => /\ done_mutex.holder \in Peers \ {w}
               /\ Live(done_mutex.holder)
               /\ ENABLED CommitStep(done_mutex.holder))
    /\ [][\A w \in Peers :
            (pc[w] \in HoldsDonePcs /\ pc'[w] \notin HoldsDonePcs)
            => (lock_free(done_mutex') /\ lock_free(file_mutex'))]_vars

\* a worker waits for the lock of done_pieces in its commit while the other
\* worker holds both locks in its write
C30_Witness ==
    \E w1, w2 \in Peers :
        /\ pc[w1] = "commit_lock_done"
        /\ pc[w2] = "commit_write"
        /\ done_mutex.holder = w2
        /\ file_mutex.holder = w2

(***************************************************************************)
(* download_worker.rs: one attempt of try_download_piece on its own, for   *)
(* the one piece of a torrent of PipeBlocks blocks, on a connection that   *)
(* has advertised the piece and is unchoked when the attempt starts.  The  *)
(* peer may send anything (a Choke, a block nobody asked for, wrong data,  *)
(* data shorter than the block) and a read or a send may fail.  Beside the *)
(* PieceState and the connection, `output` keeps what the attempt did: the *)
(* Requests it sent, the blocks read_message returned (Some(block)), the   *)
(* message of the last step and how the attempt ended.  The pieces of this *)
(* specification have fewer than U8 blocks: blocks_done does not overflow. *)
(***************************************************************************)
AttemptPiece ==
    create_piece_queue(Torrent(PipeBlocks * PipeBlockSize,
                               PipeBlocks * PipeBlockSize))[1]

InitAttempt ==
    /\ InitFor(PipeBlocks * PipeBlockSize, PipeBlocks * PipeBlockSize,
               PipeBlockSize, 0, {})
    /\ input = [fn |-> "try_download_piece", piece |-> AttemptPiece]
    /\ output = NoCall

\* send_request: the message handed to conn.send for a block
request_message(st, block) == Request(st.index, block.begin, block.length)

\* what conn.read() may give during the attempt: an error, a message that
\* is no Piece, any block of the piece with its bytes, requested or not, the
\* first block also with wrong bytes and with no byte at all, and a block of
\* another piece
AttemptReads ==
    {IoError, Malformed, Choke, Unchoke, Other, Have(0), Have(8)}
    \cup {PieceMsg(input.piece.index, b, TrueData(input.piece.index, b)) :
             b \in BlockBegins}
    \cup {PieceMsg(input.piece.index, 0, Zeros(PipeBlockSize)),
          PieceMsg(input.piece.index, 0, <<>>),
          PieceMsg(input.piece.index + 1, 0, Zeros(PipeBlockSize))}

\* `let mut state = PieceState::new(piece);`
AttemptNew ==
    /\ output = NoCall
    /\ output' = [fn |-> "PieceState::new", message |-> Other,
                   state |-> PieceState_new(input.piece),
                   conn |-> [chocked |-> FALSE, bitfield |-> <<128>>],
                   sent |-> <<>>, stored |-> <<>>, result |-> "running"]
    /\ UNCHANGED <<program, input>>

\* one turn of the inner while: pop a block and send_request (conn.send may
\* fail: the attempt ends with Err and the PieceState is dropped)
AttemptSendRequest(send_ok) ==
    /\ output # NoCall
    /\ output.result = "running"
    /\ ~output.conn.chocked
    /\ room_for_request(output.state)
    /\ LET st == output.state
           block == Last(st.block_queue)
       IN output' =
             IF send_ok
             THEN [output EXCEPT !.fn = "send_request",
                                 !.message = request_message(st, block),
                                 !.state = send_request(st),
                                 !.sent = Append(@, request_message(st, block))]
             ELSE [output EXCEPT !.fn = "send_request",
                                 !.message = request_message(st, block),
                                 !.state = NoState,
                                 !.result = "Err"]
    /\ UNCHANGED <<program, input>>

\* state.read_message reading r, then store_in_buffer of the block returned
AttemptReadMessage(r) ==
    /\ output # NoCall
    /\ output.result = "running"
    /\ output.state.block_queue # <<>> \/ output.state.requested_blocks # <<>>
    /\ ~(~output.conn.chocked /\ room_for_request(output.state))
    /\ LET st == output.state
           k == block_index(st, r)
           have_panics == r.kind = "Have"
                          /\ bit_access_panics(output.conn.bitfield, r.index)
           store_panics == k > 0 /\ splice_panics(st.buf, st.requested_blocks[k])
           result == CASE r.kind = "io_error" -> "Err"
                       [] r.kind = "malformed" -> "panic"
                       [] have_panics \/ store_panics -> "panic"
                       [] OTHER -> "running"
       IN output' =
             [output EXCEPT
                 !.fn = "read_message",
                 !.message = r,
                 !.result = result,
                 !.state = IF result # "running" THEN NoState
                           ELSE IF k > 0 THEN received(st, k, r.data)
                           ELSE st,
                 !.stored = IF k > 0 /\ r.kind \notin {"io_error", "malformed"}
                            THEN Append(@, st.requested_blocks[k]) ELSE @,
                 !.conn = [chocked |-> IF r.kind = "Choke" THEN TRUE
                                       ELSE IF r.kind = "Unchoke" THEN FALSE
                                       ELSE @.chocked,
                           bitfield |-> IF r.kind = "Have" /\ ~have_panics
                                        THEN set_piece(@.bitfield, r.index)
                                        ELSE @.bitfield]]
    /\ UNCHANGED <<program, input>>

\* after the loop: piece.check_integrity(hash_sha1(&state.buf))?; Ok(state)
AttemptCheckIntegrity ==
    /\ output # NoCall
    /\ output.result = "running"
    /\ output.state.block_queue = <<>>
    /\ output.state.requested_blocks = <<>>
    /\ output' =
          IF check_integrity(input.piece, hash_sha1(output.state.buf))
          THEN [output EXCEPT !.fn = "check_integrity", !.message = Other,
                              !.result = "Ok"]
          ELSE [output EXCEPT !.fn = "check_integrity", !.message = Other,
                              !.state = NoState, !.result = "Err"]
    /\ UNCHANGED <<program, input>>

NextAttempt ==
    \/ AttemptNew
    \/ \E send_ok \in BOOLEAN : AttemptSendRequest(send_ok)
    \/ \E r \in AttemptReads : AttemptReadMessage(r)
    \/ AttemptCheckIntegrity

SpecAttempt == InitAttempt /\ [][NextAttempt]_vars


\* the blocks of the piece of the attempt, and where the attempt recorded in
\* o has them: pending (block_queue), in flight (requested_blocks),
\* completed (returned by read_message and stored)
AttemptBlocks == Range(create_block_queue(input.piece, block_size))
PendingOf(o) == Range(o.state.block_queue)
InFlightOf(o) == Range(o.state.requested_blocks)
CompletedOf(o) == Range(o.stored)
Running(o) == o # NoCall /\ o.state # NoState

(***************************************************************************)
(* C31: during try_download_piece every block of the piece is in exactly   *)
(* one of pending, in flight or completed; a block only moves from pending *)
(* to in flight, when its Request (the index of the piece, the begin and   *)
(* the length of the block) is sent, and from in flight to completed, when *)
(* a Piece message of this index and begin arrives; each block is          *)
(* requested at most once in the attempt, and the hash check is reached    *)
(* only when every block is completed.                                     *)
(***************************************************************************)
C31_BlockLifeCycle ==
    /\ [](Running(output) =>
            /\ PendingOf(output) \cup InFlightOf(output) \cup CompletedOf(output)
                  = AttemptBlocks
            /\ Len(output.state.block_queue) + Len(output.state.requested_blocks)
                  + Len(output.stored) = Cardinality(AttemptBlocks)
            /\ {b \in AttemptBlocks :
                   request_message(output.state, b) \in Range(output.sent)}
                  = InFlightOf(output) \cup CompletedOf(output))
    /\ [](output # NoCall =>
            /\ \A j, k \in 1..Len(output.sent) :
                  output.sent[j] = output.sent[k] => j = k
            /\ \A k \in 1..Len(output.sent) :
                  \E b \in AttemptBlocks :
                     output.sent[k] = Request(input.piece.index, b.begin, b.length)
            /\ output.fn = "check_integrity" =>
                  (CompletedOf(output) = AttemptBlocks
                   /\ Len(output.stored) = Cardinality(AttemptBlocks)))
    /\ [][(Running(output) /\ Running(output')) =>
            /\ PendingOf(output') \subseteq PendingOf(output)
            /\ InFlightOf(output') \subseteq InFlightOf(output) \cup PendingOf(output)
            /\ CompletedOf(output) \subseteq CompletedOf(output')
            /\ CompletedOf(output') \subseteq CompletedOf(output) \cup InFlightOf(output)
            /\ \A b \in PendingOf(output) \cap InFlightOf(output') :
                  /\ output'.fn = "send_request"
                  /\ output'.sent =
                        Append(output.sent,
                               Request(input.piece.index, b.begin, b.length))
            /\ output'.sent # output.sent =>
                  PendingOf(output) \cap InFlightOf(output') # {}
            /\ \A b \in InFlightOf(output) \cap CompletedOf(output') :
                  /\ output'.fn = "read_message"
                  /\ output'.message.kind = "Piece"
                  /\ output'.message.index = input.piece.index
                  /\ output'.message.begin = b.begin]_vars

\* an attempt was choked on the way, got its blocks in another order than
\* it asked for them, and passed the hash check with every block requested
\* once
C31_Witness ==
    /\ output # NoCall
    /\ output.fn = "check_integrity"
    /\ output.result = "Ok"
    /\ output.conn.chocked
    /\ Len(output.sent) = PipeBlocks
    /\ output.stored[1].begin # output.sent[1].begin


(***************************************************************************)
(* C32: the piece buffer has exactly p.length bytes at every point of      *)
(* try_download_piece, whatever the length of the data of an accepted      *)
(* Piece message: storing a block does not panic, changes only bytes       *)
(* inside the range [begin, end) of that block, and neither changes the    *)
(* length of the buffer nor shifts the bytes of other blocks.              *)
(***************************************************************************)
C32_BufferKeepsLength ==
    /\ [](Running(output) => Len(output.state.buf) = input.piece.length)
    /\ [][(Running(output) /\ output'.fn = "read_message"
           /\ CompletedOf(output') # CompletedOf(output)) =>
            /\ Running(output')
            /\ Len(output'.state.buf) = Len(output.state.buf)
            /\ \A b \in CompletedOf(output') \ CompletedOf(output) :
                  \A j \in 1..Len(output.state.buf) :
                     (j <= b.begin \/ j > b.end)
                        => output'.state.buf[j] = output.state.buf[j]]_vars


\* the number of blocks read_message has accepted so far in the attempt of
\* SpecStore: those of the piece neither pending nor in flight
Accepted(st) ==
    Len(create_block_queue(input.piece, block_size))
       - Len(st.block_queue) - Len(st.requested_blocks)

(***************************************************************************)
(* C33: the completed-block count of a piece attempt (blocks_done) equals  *)
(* the number of blocks accepted so far, for every piece length, pieces of *)
(* more than 255 blocks included: the 8-bit counter neither overflows (a   *)
(* panic of the thread, here on the piece served with blocks of the right  *)
(* length) nor wraps before the piece finishes.                            *)
(***************************************************************************)
C33_CountEqualsAccepted ==
    /\ Running(output) => output.state.blocks_done = Accepted(output.state)
    /\ (output # NoCall /\ input.in_order) => output.state # NoState
=============================================================================
